---- MODULE Spec2Model ----
(***************************************************************************)
(* Model of claude-local-proxy: the bounded admission queue                *)
(* (src/src/queue.js, and its older copy src/src/queue.ts), the routes     *)
(* GET /v1/models and POST /v1/messages of src/proxy.mjs with the rate     *)
(* limiter, the two backend calls callOllamaJSON and                       *)
(* streamOllamaToAnthropic, the SSE decoder openAISSEToJSON, the request   *)
(* translation anthropicToOpenAI, the model selection pickModel, the route *)
(* GET /health, and the run store of the control hub                      *)
(* (src/mac-control-hub/server.mjs).                                       *)
(*                                                                         *)
(* JavaScript runs one macrotask (an HTTP request, an I/O callback, a      *)
(* timer) at a time and drains the promise-reaction (microtask) queue      *)
(* before the next one.  `micro` is that queue: every action that stands   *)
(* for a macrotask is enabled only when it is empty, and the reaction at   *)
(* its head is the only thing that can run while it is not.                *)
(***************************************************************************)
EXTENDS Integers, Sequences, FiniteSets, TLC

\* ---------------------------------------------------------------- bounds
MaxJobs == 3
MaxReqs == 2
MaxLimit == 2
MaxDeltas == 2
MaxFrames == 2
RateMax == 2
WindowMs == 2
MaxTime == 3

Jobs == 1..MaxJobs

VARIABLES
  limitArg,        \* the value handed to new Queue(limit)
  limit,           \* this.limit
  maxQueueLength,  \* this.options.maxQueueLength: <<>> is Infinity, <<n>> is n
  inflight,        \* this.inflight
  q,               \* this.q, the pending jobs, head first
  micro,           \* the engine's promise-reaction queue, head first
  nextId,          \* number of jobs accepted so far; job ids are 1..nextId
  lastResult,      \* how the latest enqueue call returned
  kind,            \* per job: "none" | "plain" | "json" | "stream"
  jstate,          \* per job: position in the queue's life cycle
  fnOutcome,       \* per job: how job.fn() settled: "none" | "ok" | "fail"
  fnErr,           \* per job: the error job.fn() failed with
  future,          \* per job: the promise enqueue returned
  notified,        \* per job: the enqueuer's continuation has run
  startOrder,      \* history: job ids in the order job.fn() was invoked
  signalled,       \* history: job.fn() settled on an external signal
  pre,             \* history, plain jobs: this.inflight at the enqueue
  disturbed,       \* history, plain jobs: another job took or gave back a
                   \* slot since the enqueue
  hstate,          \* per request: the async route handler
  call,            \* per request: the fetch to the backend
  backend,         \* per request: the status class the backend answered with
  reply,           \* per request: choices[0].message.content of the JSON body
  timer,           \* per request: the setTimeout(() => ac.abort())
  failPhase,       \* history: where the backend call was when it failed
  out,             \* per request: what was written to res, in order
  status,          \* per request: res.statusCode once a body was sent
  headersSent,     \* per request: res.headersSent
  ended,           \* per request: res.end() has been called
  requests,        \* rateLimit.requests: per key (client IP and window),
                   \* the requests counted
  clock,           \* Date.now() of the proxy, in scaled milliseconds
  lastHttp,        \* the latest request to arrive and the status it was
                   \* answered with at once (0: not answered yet)
  frames,          \* decoder: the backend body, as the frames it is made of
  pos,             \* decoder: how many of its bytes have been delivered
  buf,             \* decoder: buf of openAISSEToJSON
  decoded,         \* decoder, history: every character decoded so far
  dout,            \* decoder: what the translator wrote to res
  dphase,          \* decoder: "idle" | "reading" | "closed"
  anth,            \* translation: the body of a request, as far as
                   \* anthropicToOpenAI reads it
  msgs,            \* translation: what anthropicToOpenAI returned
  translated,      \* translation: anthropicToOpenAI has returned
  prompt,          \* selection: the text pickModel is watched on
  first,           \* selection, history: what its first call on prompt
                   \* returned
  picked,          \* selection: what its latest call on prompt returned
  again,           \* selection, history: prompt was passed more than once
  other,           \* selection: what its latest call on any text returned
  codeLastIndex,   \* CODE_PATTERN.lastIndex
  reasoningLastIndex,  \* REASONING_PATTERN.lastIndex
  health,          \* the body of the latest answer of GET /health
  runs,            \* control hub: the runs Map, in insertion order; a run's
                   \* id is its index
  now,             \* control hub: Date.now()
  hubReply,        \* control hub: its latest answer to POST /cmd/run,
                   \* POST /runs/:id/stop or GET /runs
  conns            \* control hub: the responses of GET /stream/:id, in the
                   \* order the requests came

conf == <<limitArg, limit, maxQueueLength>>
hist == <<startOrder, signalled, pre, disturbed>>
qvars == <<conf, inflight, q, micro, nextId, lastResult, kind, jstate,
           fnOutcome, fnErr, future, notified, hist>>
resvars == <<out, status, headersSent, ended>>
pvars == <<hstate, call, backend, reply, timer, failPhase, resvars>>
fvars == <<requests, lastHttp, clock>>
dvars == <<frames, pos, buf, decoded, dout, dphase>>
tvars == <<anth, msgs, translated>>
svars == <<prompt, first, picked, again, other, codeLastIndex,
           reasoningLastIndex>>
hvars == <<health>>
cvars == <<runs, now, hubReply, conns>>
ovars == <<tvars, svars, hvars, cvars>>
vars == <<qvars, pvars, fvars, dvars, ovars>>

\* ------------------------------------------------------------ queue.js
\* The values a caller may pass as `limit`.
LimitArgs ==
  {[nan |-> TRUE, n |-> 0]} \cup {[nan |-> FALSE, n |-> i] : i \in -1..MaxLimit}

Max(a, b) == IF a >= b THEN a ELSE b

\* Math.max(1, Number(limit) || 1): NaN and 0 are falsy.
QueueLimit(a) == Max(1, IF a.nan \/ a.n = 0 THEN 1 ELSE a.n)

\* A bug in the cap: > for >=.
QueueFullOffByOne(len) == maxQueueLength # <<>> /\ len > maxQueueLength[1]

\* this.q.length >= this.options.maxQueueLength
QueueFull(len) == maxQueueLength # <<>> /\ len >= maxQueueLength[1]

\* this.q.push(job)
Push(qq, j) == Append(qq, j)

\* A bug that takes the newest job: this.q.pop().
ShiftNewest(qq) == [job |-> qq[Len(qq)], rest |-> SubSeq(qq, 1, Len(qq) - 1)]

\* const job = this.q.shift()
Shift(qq) == [job |-> Head(qq), rest |-> Tail(qq)]

\* A bug in the guard: > for >=.
PumpBlockedOffByOne(infl) == infl > limit

\* A bug in the guard that keeps the last slot free.
PumpBlockedEarly(infl) == infl + 1 >= limit

\* if (this.inflight >= this.limit) return;
PumpBlocked(infl) == infl >= limit

\* A bug that takes the job from the list and counts it later, behind a
\* suspension point.
PumpCountsLater(infl, qq) ==
  IF PumpBlocked(infl) \/ qq = <<>>
  THEN [inflight |-> infl, q |-> qq, started |-> <<>>]
  ELSE [inflight |-> infl, q |-> Shift(qq).rest, started |-> <<Shift(qq).job>>]

\* _pump(): starts at most one job. The result names the new counter, the
\* new pending list and the job started, if any.
Pump(infl, qq) ==
  IF PumpBlocked(infl) \/ qq = <<>>
  THEN [inflight |-> infl, q |-> qq, started |-> <<>>]
  ELSE [inflight |-> infl + 1, q |-> Shift(qq).rest, started |-> <<Shift(qq).job>>]

Task(k, j) == [kind |-> k, job |-> j]

\* The reaction the engine runs next.
IsHead(k, j) == micro # <<>> /\ Head(micro) = Task(k, j)

\* Promise.resolve().then(() => job.fn()): one reaction per started job.
InvokeTasks(started) == [i \in 1..Len(started) |-> Task("invoke", started[i])]

Elems(s) == {s[i] : i \in 1..Len(s)}

\* Jobs that took a slot and have not given it back.
Holding == {j \in Jobs : jstate[j] \in {"admitted", "running", "settled"}}

\* Jobs that are enqueued and have not yet released their slot.
Live == {j \in Jobs : jstate[j] \in {"pending", "admitted", "running", "settled"}}

\* The history variables follow the jobs of direct callers of the queue.
Observed(i, S) == i \in S /\ kind[i] = "plain"

NoErr == [name |-> "none", msg |-> "none"]
Err(n, m) == [name |-> n, msg |-> m]

\* inflight = 0, q = [] and no job yet.
InitEmpty ==
  /\ inflight = 0
  /\ q = <<>>
  /\ micro = <<>>
  /\ nextId = 0
  /\ lastResult = "none"
  /\ kind = [j \in Jobs |-> "none"]
  /\ jstate = [j \in Jobs |-> "none"]
  /\ fnOutcome = [j \in Jobs |-> "none"]
  /\ fnErr = [j \in Jobs |-> NoErr]
  /\ future = [j \in Jobs |-> "pending"]
  /\ notified = [j \in Jobs |-> FALSE]
  /\ startOrder = <<>>
  /\ signalled = [j \in Jobs |-> FALSE]
  /\ pre = [j \in Jobs |-> 0]
  /\ disturbed = [j \in Jobs |-> FALSE]

InitQueue(args, maxLens) ==
  /\ limitArg \in args
  /\ limit = QueueLimit(limitArg)
  /\ maxQueueLength \in maxLens
  /\ InitEmpty

\* The client addresses requests come from.
Ips == {"a", "b"}

NoRequest ==
  [route |-> "none", ip |-> "none", auth |-> <<>>, messages |-> "undefined",
   status |-> 0]

\* const window = Math.floor(now / this.windowMs)
Window(t) == t \div WindowMs

Windows == {Window(t) : t \in 0..MaxTime}

\* const key = `${ip}:${window}`: the window is written in digits, so two
\* keys are equal only when both the address and the window are.
Key(ip, t) == <<ip, Window(t)>>

\* rateLimit.requests = new Map() (a key that is absent counts as 0), and
\* no request yet.
InitFront ==
  /\ requests = [key \in Ips \X Windows |-> 0]
  /\ clock = 0
  /\ lastHttp = NoRequest

\* No backend body is being decoded.
InitDecoderIdle ==
  /\ frames = <<>>
  /\ pos = 0
  /\ buf = <<>>
  /\ decoded = <<>>
  /\ dout = <<>>
  /\ dphase = "idle"

\* A value that is undefined, a string or an array of content parts.
Undefined == [kind |-> "undefined", str |-> "", parts |-> <<>>]

\* No request body is being translated.
InitTranslateIdle ==
  /\ anth = [system |-> Undefined, messages |-> <<>>]
  /\ msgs = <<>>
  /\ translated = FALSE

\* pickModel has not been called; a RegExp starts with lastIndex 0.
InitSelectIdle ==
  /\ prompt = <<>>
  /\ first = "none"
  /\ picked = "none"
  /\ again = FALSE
  /\ other = "none"
  /\ codeLastIndex = 0
  /\ reasoningLastIndex = 0

NoHealth ==
  [status |-> "none", inflight |-> 0, queued |-> 0,
   maxInflight |-> [nan |-> FALSE, n |-> 0]]

\* GET /health has not been asked.
InitHealthIdle == health = NoHealth

NoLimit == [given |-> FALSE, nan |-> FALSE, n |-> 0]

\* An answer to POST /runs/:id/stop: the id and signal asked for, the HTTP
\* status, and ok and status of the body.
StopReply(id, body, code, ok, st) ==
  [route |-> "stop", code |-> code, id |-> id, asked |-> body, ok |-> ok,
   status |-> st, limit |-> NoLimit, runs |-> <<>>]

\* An answer to GET /runs: the limit and status asked for, the HTTP status,
\* and the ids of the runs of the body.
ListReply(lq, sq, code, ids) ==
  [route |-> "list", code |-> code, id |-> 0, asked |-> "none", ok |-> FALSE,
   status |-> sq, limit |-> lq, runs |-> ids]

\* An answer to POST /cmd/run: the HTTP status and, when it is 200, the id
\* and status of the body.
RunReply(code, id) ==
  [route |-> "run", code |-> code, id |-> id, asked |-> "none",
   ok |-> code = 200, status |-> IF code = 200 THEN "running" ELSE "none",
   limit |-> NoLimit, runs |-> <<>>]

NoReply ==
  [route |-> "none", code |-> 0, id |-> 0, asked |-> "none", ok |-> FALSE,
   status |-> "none", limit |-> NoLimit, runs |-> <<>>]

\* The control hub has started no run and answered no request.
InitHub ==
  /\ runs = <<>>
  /\ now = 0
  /\ hubReply = NoReply
  /\ conns = <<>>

\* The parts of the program a specification leaves alone.
InitOthersIdle ==
  InitTranslateIdle /\ InitSelectIdle /\ InitHealthIdle /\ InitHub

InitProxyVars ==
  /\ hstate = [j \in Jobs |-> "idle"]
  /\ call = [j \in Jobs |-> "none"]
  /\ backend = [j \in Jobs |-> "none"]
  /\ reply = [j \in Jobs |-> "none"]
  /\ timer = [j \in Jobs |-> "unset"]
  /\ failPhase = [j \in Jobs |-> "none"]
  /\ out = [j \in Jobs |-> <<>>]
  /\ status = [j \in Jobs |-> 0]
  /\ headersSent = [j \in Jobs |-> FALSE]
  /\ ended = [j \in Jobs |-> FALSE]

\* enqueue(fn) past both checks: the promise executor pushes and pumps.
EnqueueJob(k) ==
  LET j == nextId + 1
      p == Pump(inflight, Push(q, j))
  IN /\ nextId < MaxJobs
     /\ ~QueueFull(Len(q))
     /\ nextId' = j
     /\ lastResult' = "accepted"
     /\ kind' = [kind EXCEPT ![j] = k]
     /\ inflight' = p.inflight
     /\ q' = p.q
     /\ jstate' = [i \in Jobs |->
           IF i \in Elems(p.started) THEN "admitted"
           ELSE IF i = j THEN "pending" ELSE jstate[i]]
     /\ micro' = micro \o InvokeTasks(p.started)
     /\ pre' = [pre EXCEPT ![j] = IF k = "plain" THEN inflight ELSE 0]
     /\ disturbed' = [i \in Jobs |-> Observed(i, Live) \/ disturbed[i]]
     /\ UNCHANGED <<conf, fnOutcome, fnErr, future, notified, startOrder,
                    signalled>>

\* A caller outside the proxy: queue.enqueue(fn) with an arbitrary fn.
Enqueue ==
  /\ micro = <<>>
  /\ EnqueueJob("plain")
  /\ UNCHANGED pvars
  /\ UNCHANGED <<fvars, dvars, ovars>>

\* enqueue(fn) while the pending list is full: Promise.reject, nothing else.
EnqueueFull ==
  /\ micro = <<>>
  /\ nextId < MaxJobs
  /\ QueueFull(Len(q))
  /\ lastResult' = "Queue is full"
  /\ UNCHANGED <<conf, inflight, q, micro, nextId, kind, jstate, fnOutcome,
                 fnErr, future, notified, hist>>
  /\ UNCHANGED pvars
  /\ UNCHANGED <<fvars, dvars, ovars>>

\* typeof of the value handed to enqueue.
ArgTypes == {"function", "undefined", "string", "object"}

\* A bug that lets every value through the typeof test.
IsFunctionAnything(t) == TRUE

\* typeof fn === 'function'
IsFunction(t) == t = "function"

\* enqueue(v) with typeof v = t: throw new TypeError('enqueue requires a
\* function') before anything else is looked at.  (Function arguments are
\* the actions Enqueue and EnqueueFull.)
EnqueueValue(t) ==
  /\ micro = <<>>
  /\ IF IsFunction(t)
     THEN EnqueueJob(t)
     ELSE /\ lastResult' = "TypeError"
          /\ UNCHANGED <<conf, inflight, q, micro, nextId, kind, jstate,
                         fnOutcome, fnErr, future, notified, hist>>
  /\ UNCHANGED pvars
  /\ UNCHANGED <<fvars, dvars, ovars>>

\* A bug that also forgets the running jobs.
ClearAndReset ==
  /\ micro = <<>>
  /\ q' = <<>>
  /\ inflight' = 0
  /\ jstate' = [j \in Jobs |-> IF j \in Elems(q) THEN "cleared" ELSE jstate[j]]
  /\ UNCHANGED <<conf, micro, nextId, lastResult, kind, fnOutcome,
                 fnErr, future, notified, hist>>
  /\ UNCHANGED pvars
  /\ UNCHANGED <<fvars, dvars, ovars>>

\* clear(): this.q.length = 0
Clear ==
  /\ micro = <<>>
  /\ q' = <<>>
  /\ jstate' = [j \in Jobs |-> IF j \in Elems(q) THEN "cleared" ELSE jstate[j]]
  /\ UNCHANGED <<conf, inflight, micro, nextId, lastResult, kind, fnOutcome,
                 fnErr, future, notified, hist>>
  /\ UNCHANGED pvars
  /\ UNCHANGED <<fvars, dvars, ovars>>

\* job.fn() has settled with outcome o: the reaction .then(job.resolve,
\* job.reject) is queued behind `rest`.  (The reactions by which the outer
\* promise adopts the one fn returned touch no state and are folded into
\* this step.)
FnSettled(j, o, e, rest) ==
  /\ fnOutcome' = [fnOutcome EXCEPT ![j] = o]
  /\ fnErr' = [fnErr EXCEPT ![j] = e]
  /\ jstate' = [jstate EXCEPT ![j] = "settled"]
  /\ micro' = rest \o <<Task("forward", j)>>

PlainErr(o) == IF o = "fail" THEN Err("Error", "other") ELSE NoErr

\* () => job.fn() for a plain job: fn returns a value, throws, or returns a
\* promise that stays pending until something outside settles it.
InvokePlain(j) ==
  /\ IsHead("invoke", j)
  /\ kind[j] = "plain"
  /\ startOrder' = Append(startOrder, j)
  /\ \E b \in {"ok", "fail", "wait"} :
       IF b = "wait"
       THEN /\ jstate' = [jstate EXCEPT ![j] = "running"]
            /\ micro' = Tail(micro)
            /\ UNCHANGED <<fnOutcome, fnErr>>
       ELSE FnSettled(j, b, PlainErr(b), Tail(micro))
  /\ UNCHANGED <<conf, inflight, q, nextId, lastResult, kind, future, notified,
                 signalled, pre, disturbed>>
  /\ UNCHANGED pvars
  /\ UNCHANGED <<fvars, dvars, ovars>>

\* The external signal a running plain job waits for.
Signal(j, o) ==
  /\ micro = <<>>
  /\ kind[j] = "plain"
  /\ jstate[j] = "running"
  /\ FnSettled(j, o, PlainErr(o), micro)
  /\ signalled' = [signalled EXCEPT ![j] = TRUE]
  /\ UNCHANGED <<conf, inflight, q, nextId, lastResult, kind, future, notified,
                 startOrder, pre, disturbed>>
  /\ UNCHANGED pvars
  /\ UNCHANGED <<fvars, dvars, ovars>>

\* A bug that registers the cleanup twice.
ForwardTasksTwice(j) ==
  <<Task("caller", j), Task("finally", j), Task("finally", j)>>

\* A bug that forgets the cleanup: no .finally at all.
ForwardTasksNoFinally(j) == <<Task("caller", j)>>

\* A bug that releases with .then(cleanup) in place of .finally(cleanup): a
\* rejection skips the cleanup.
ForwardTasksThenOnly(j) ==
  IF fnOutcome[j] = "ok" THEN <<Task("caller", j), Task("finally", j)>>
  ELSE <<Task("caller", j)>>

\* .then(job.resolve, job.reject) settles the promise enqueue returned.  The
\* reactions of that promise (the enqueuer's continuation) are queued at that
\* moment; the .finally reaction is queued when job.resolve / job.reject
\* returns, hence behind them.
ForwardTasks(j) == <<Task("caller", j), Task("finally", j)>>

Forward(j) ==
  /\ IsHead("forward", j)
  /\ future' = [future EXCEPT ![j] = IF fnOutcome[j] = "ok" THEN "resolved" ELSE "rejected"]
  /\ micro' = Tail(micro) \o ForwardTasks(j)
  /\ UNCHANGED <<conf, inflight, q, nextId, lastResult, kind, jstate, fnOutcome,
                 fnErr, notified, hist>>
  /\ UNCHANGED pvars
  /\ UNCHANGED <<fvars, dvars, ovars>>

\* The continuation of whoever awaited a job it enqueued itself.
CallerPlain(j) ==
  /\ IsHead("caller", j)
  /\ kind[j] \notin {"json", "stream"}
  /\ notified' = [notified EXCEPT ![j] = TRUE]
  /\ micro' = Tail(micro)
  /\ UNCHANGED <<conf, inflight, q, nextId, lastResult, kind, jstate, fnOutcome,
                 fnErr, future, hist>>
  /\ UNCHANGED pvars
  /\ UNCHANGED <<fvars, dvars, ovars>>

\* A bug that gives the slot back twice.
ReleaseTwice(infl) == infl - 2

\* A bug that never gives the slot back.
ReleaseNever(infl) == infl

\* this.inflight--
Release(infl) == infl - 1

\* .finally(() => { this.inflight--; this._pump(); })
Finally(j) ==
  LET p == Pump(Release(inflight), q)
  IN /\ IsHead("finally", j)
     /\ inflight' = p.inflight
     /\ q' = p.q
     /\ jstate' = [i \in Jobs |->
           IF i = j THEN "released"
           ELSE IF i \in Elems(p.started) THEN "admitted"
           ELSE jstate[i]]
     /\ micro' = Tail(micro) \o InvokeTasks(p.started)
     /\ disturbed' = [i \in Jobs |-> Observed(i, Live \ {j}) \/ disturbed[i]]
     /\ UNCHANGED <<conf, nextId, lastResult, kind, fnOutcome, fnErr, future,
                    notified, startOrder, signalled, pre>>
     /\ UNCHANGED pvars
     /\ UNCHANGED <<fvars, dvars, ovars>>

\* maxQueueLength: absent, 0 (kept by the ...options spread) and 1.
InitQ ==
  /\ InitQueue(LimitArgs, {<<>>, <<0>>, <<1>>})
  /\ InitProxyVars
  /\ InitFront
  /\ InitDecoderIdle
  /\ InitOthersIdle

NextQ ==
  \/ Enqueue
  \/ EnqueueFull
  \/ \E t \in ArgTypes \ {"function"} : EnqueueValue(t)
  \/ Clear
  \/ \E j \in Jobs : InvokePlain(j)
  \/ \E j \in Jobs, o \in {"ok", "fail"} : Signal(j, o)
  \/ \E j \in Jobs : Forward(j)
  \/ \E j \in Jobs : CallerPlain(j)
  \/ \E j \in Jobs : Finally(j)

SpecQ == InitQ /\ [][NextQ]_vars

\* The queue when clear() is not called and every call of enqueue passes a
\* function.  The engine runs every reaction that is queued, and the
\* function of every running job settles in the end.
InitL == InitQ

NextL ==
  \/ Enqueue
  \/ EnqueueFull
  \/ \E j \in Jobs : InvokePlain(j)
  \/ \E j \in Jobs, o \in {"ok", "fail"} : Signal(j, o)
  \/ \E j \in Jobs : Forward(j)
  \/ \E j \in Jobs : CallerPlain(j)
  \/ \E j \in Jobs : Finally(j)

FairL ==
  \A j \in Jobs :
    /\ WF_vars(InvokePlain(j))
    /\ WF_vars(\E o \in {"ok", "fail"} : Signal(j, o))
    /\ WF_vars(Forward(j))
    /\ WF_vars(CallerPlain(j))
    /\ WF_vars(Finally(j))

SpecL == InitL /\ [][NextL]_vars /\ FairL

\* ------------------------------------------------------------ queue.ts
\* The second Queue of the repository: the same _pump, but the constructor
\* stores limit as given and enqueue makes no check at all.
TsLimitArgs == {[nan |-> FALSE, n |-> i] : i \in -1..MaxLimit}

InitT ==
  /\ limitArg \in TsLimitArgs
  /\ limit = limitArg.n
  /\ maxQueueLength = <<>>
  /\ InitEmpty
  /\ InitProxyVars
  /\ InitFront
  /\ InitDecoderIdle
  /\ InitOthersIdle

\* enqueue(fn): this.q.push({ fn, resolve, reject }); this._pump(), whatever
\* fn is.
EnqueueTs(t) ==
  /\ micro = <<>>
  /\ EnqueueJob(IF t = "function" THEN "plain" ELSE t)
  /\ UNCHANGED pvars
  /\ UNCHANGED <<fvars, dvars, ovars>>

\* () => job.fn() when job.fn is not a function: the call throws a
\* TypeError inside the reaction.
InvokeNonFunction(j) ==
  /\ IsHead("invoke", j)
  /\ kind[j] \in ArgTypes \ {"function"}
  /\ startOrder' = Append(startOrder, j)
  /\ FnSettled(j, "fail", Err("TypeError", "other"), Tail(micro))
  /\ UNCHANGED <<conf, inflight, q, nextId, lastResult, kind, future, notified,
                 signalled, pre, disturbed>>
  /\ UNCHANGED pvars
  /\ UNCHANGED <<fvars, dvars, ovars>>

NextT ==
  \/ \E t \in ArgTypes : EnqueueTs(t)
  \/ \E j \in Jobs : InvokePlain(j)
  \/ \E j \in Jobs : InvokeNonFunction(j)
  \/ \E j \in Jobs, o \in {"ok", "fail"} : Signal(j, o)
  \/ \E j \in Jobs : Forward(j)
  \/ \E j \in Jobs : CallerPlain(j)
  \/ \E j \in Jobs : Finally(j)

SpecT == InitT /\ [][NextT]_vars

\* ------------------------------------------------------------ proxy.mjs
\* One record per thing written to res: an SSE event, or the JSON envelope.
Sse(t) == [type |-> t, text |-> "", stop |-> ""]
Delta(t) == [type |-> "content_block_delta", text |-> t, stop |-> ""]
Envelope(t) == [type |-> "message", text |-> t, stop |-> "end_turn"]

\* sseSend(message_start), sseSend(content_block_start)
StartEvents == <<[type |-> "message_start", text |-> "", stop |-> "null"],
                 Sse("content_block_start")>>

\* sseSend(content_block_stop), sseSend(message_stop)
StopEvents == <<Sse("content_block_stop"), Sse("message_stop")>>

\* A bug that closes the error stream without saying what failed.
ErrorEventsNoDelta(msg) == StartEvents \o StopEvents

\* The five events the catch block writes for a streaming request.
ErrorEvents(msg) == StartEvents \o <<Delta(msg)>> \o StopEvents

\* A bug that forwards the field as it is, absent or not.
ExtractContentRaw(r) == r

\* data?.choices?.[0]?.message?.content ?? ""
ExtractContent(r) == IF r = "absent" THEN "" ELSE r

\* The catch block's friendlyMsg: the model-not-found test comes first, then
\* the AbortError test, then the generic text.
FriendlyMsg(e) ==
  IF e.msg = "model not found" THEN "model not found: pull the model"
  ELSE IF e.name = "AbortError" THEN "inference timed out"
  ELSE "model call failed"

\* A bug that lets the timer fire without aborting the connection.
OnAbortIgnored(c) == c

\* ac.abort() on the signal handed to fetch: the connection is torn down.
OnAbort(c) == "aborted"

\* What fetch rejects with when the signal aborts, and on a connection error.
AbortError == Err("AbortError", "aborted")
FetchError == Err("FetchError", "other")

\* new Error(`ollama_http_${r.status}: ...`) / `ollama_stream_http_...`
HttpError(b) == Err("Error", IF b = "notfound" THEN "model not found" ELSE "other")

InCall == {j \in Jobs : call[j] \in {"headers", "body", "errbody"}}

\* runQueued(fn): every backend call goes through queue.enqueue.
RunQueued(k) == EnqueueJob(k)

\* A bug that lets one request more through in every window.
RateAllowedOneMore(ip) == ~(requests[Key(ip, clock)] > RateMax)

\* const count = this.requests.get(key) || 0; if (count >= this.max) return
\* false.  (rateLimit.max is 100; the model keeps the test and scales the
\* number down to RateMax.)
RateAllowed(ip) == ~(requests[Key(ip, clock)] >= RateMax)

\* this.requests.set(key, count + 1)
RateCount(ip) == [requests EXCEPT ![Key(ip, clock)] = @ + 1]

\* The wall clock moves: Date.now() is not monotonic, so to any time.
SetClock(t) ==
  /\ t # clock
  /\ clock' = t
  /\ UNCHANGED <<requests, lastHttp>>
  /\ UNCHANGED <<qvars, pvars, dvars, ovars>>

\* BEARER = process.env.PROXY_BEARER || "local"
Bearer == "local"

\* The Authorization header: absent, or a scheme and a token.
AuthHeaders == {<<>>, <<"Bearer", Bearer>>, <<"Bearer", "wrong">>}

\* A bug that looks at the scheme only.
AuthOkSchemeOnly(h) == h # <<>> /\ h[1] = "Bearer"

\* (req.headers.authorization || "") === `Bearer ${BEARER}`
AuthOk(h) == h = <<"Bearer", Bearer>>

\* What req.body.messages may be.
MessagesValues == {"undefined", "string", "array"}

\* A bug that drops the Array.isArray test.
MessagesOkTruthy(v) == v # "undefined"

\* !(!anth.messages || !Array.isArray(anth.messages))
MessagesOk(v) == v # "undefined" /\ v = "array"

Answered(route, ip, h, v, code) ==
  [route |-> route, ip |-> ip, auth |-> h, messages |-> v, status |-> code]

\* The request was answered at once: the queue, the backend calls and the
\* responses of the other requests are as they were.
TurnedAway == UNCHANGED <<qvars, pvars>>

\* POST /v1/messages from address ip with Authorization header h, body field
\* messages = v and stream flag as k says, up to the first await: the rate
\* limiter, then authOk, then the validation, then runQueued.
PostMessages(ip, h, v, k) ==
  /\ micro = <<>>
  /\ k \in {"json", "stream"}
  /\ IF ~RateAllowed(ip)
     THEN /\ lastHttp' = Answered("POST /v1/messages", ip, h, v, 429)
          /\ UNCHANGED requests
          /\ TurnedAway
     ELSE /\ requests' = RateCount(ip)
          /\ IF ~AuthOk(h)
             THEN /\ lastHttp' = Answered("POST /v1/messages", ip, h, v, 401)
                  /\ TurnedAway
             ELSE IF ~MessagesOk(v)
             THEN /\ lastHttp' = Answered("POST /v1/messages", ip, h, v, 400)
                  /\ TurnedAway
             ELSE /\ nextId < MaxReqs
                  /\ lastHttp' = Answered("POST /v1/messages", ip, h, v, 0)
                  /\ RunQueued(k)
                  /\ hstate' = [hstate EXCEPT ![nextId + 1] = "waiting"]
                  /\ UNCHANGED <<call, backend, reply, timer, failPhase, resvars>>
  /\ UNCHANGED <<clock, dvars, ovars>>

\* POST /v1/messages with valid credentials and body, within the rate limit.
Post(k) ==
  /\ RateAllowed("a")
  /\ PostMessages("a", <<"Bearer", Bearer>>, "array", k)

\* GET /v1/models: 401 without the bearer token, the model list with it.
GetModels(h) ==
  /\ micro = <<>>
  /\ lastHttp' = Answered("GET /v1/models", "none", h, "undefined",
                           IF ~AuthOk(h) THEN 401 ELSE 200)
  /\ UNCHANGED <<requests, clock>>
  /\ TurnedAway
  /\ UNCHANGED <<dvars, ovars>>

\* () => job.fn() for a request: callOllamaJSON / streamOllamaToAnthropic up
\* to `await fetch(...)`: the abort timer is armed and the call is issued.
InvokeCall(j) ==
  /\ IsHead("invoke", j)
  /\ kind[j] \in {"json", "stream"}
  /\ startOrder' = Append(startOrder, j)
  /\ jstate' = [jstate EXCEPT ![j] = "running"]
  /\ micro' = Tail(micro)
  /\ timer' = [timer EXCEPT ![j] = "armed"]
  /\ call' = [call EXCEPT ![j] = "headers"]
  /\ UNCHANGED <<conf, inflight, q, nextId, lastResult, kind, fnOutcome, fnErr,
                 future, notified, signalled, pre, disturbed>>
  /\ UNCHANGED <<hstate, backend, reply, failPhase, resvars>>
  /\ UNCHANGED <<fvars, dvars, ovars>>

quiet == <<conf, inflight, q, nextId, lastResult, kind, future, notified, hist>>

\* The backend call fails with error e while in phase call[j]; the finally
\* block clears the timer and the async function rejects.
CallFails(j, c, e) ==
  /\ call' = [call EXCEPT ![j] = c]
  /\ failPhase' = [failPhase EXCEPT ![j] = call[j]]
  /\ FnSettled(j, "fail", e, micro)

\* fetch rejects: the backend cannot be reached.
FetchFails(j) ==
  /\ micro = <<>>
  /\ call[j] = "headers"
  /\ CallFails(j, "failed", FetchError)
  /\ timer' = [timer EXCEPT ![j] = "cleared"]
  /\ UNCHANGED quiet
  /\ UNCHANGED <<hstate, backend, reply, resvars>>
  /\ UNCHANGED <<fvars, dvars, ovars>>

\* fetch resolves with the response head.  The JSON call goes on to
\* `await r.text()`.  The streaming call does the same when !r.ok; otherwise
\* it writes the opening events and starts to read the body.
Headers(j, b) ==
  /\ micro = <<>>
  /\ call[j] = "headers"
  /\ b \in {"ok", "notfound", "error"}
  /\ backend' = [backend EXCEPT ![j] = b]
  /\ IF kind[j] = "stream" /\ b = "ok"
     THEN /\ call' = [call EXCEPT ![j] = "body"]
          /\ out' = [out EXCEPT ![j] = out[j] \o StartEvents]
          /\ headersSent' = [headersSent EXCEPT ![j] = TRUE]
     ELSE /\ call' = [call EXCEPT ![j] = IF kind[j] = "stream" THEN "errbody" ELSE "body"]
          /\ UNCHANGED <<out, headersSent>>
  /\ UNCHANGED qvars
  /\ UNCHANGED <<hstate, reply, timer, failPhase, status, ended>>
  /\ UNCHANGED <<fvars, dvars, ovars>>

\* r.text() resolves.  callOllamaJSON returns the parsed body when r.ok and
\* throws ollama_http_<status> otherwise; the streaming call, which reads the
\* text only when !r.ok, throws ollama_stream_http_<status>.
BodyText(j, r) ==
  /\ micro = <<>>
  /\ \/ kind[j] = "json" /\ call[j] = "body"
     \/ kind[j] = "stream" /\ call[j] = "errbody"
  /\ r \in {"absent", "hello"}
  /\ timer' = [timer EXCEPT ![j] = "cleared"]
  /\ IF backend[j] = "ok"
     THEN /\ reply' = [reply EXCEPT ![j] = r]
          /\ call' = [call EXCEPT ![j] = "closed"]
          /\ FnSettled(j, "ok", NoErr, micro)
          /\ UNCHANGED failPhase
     ELSE /\ CallFails(j, "closed", HttpError(backend[j]))
          /\ UNCHANGED reply
  /\ UNCHANGED quiet
  /\ UNCHANGED <<hstate, backend, resvars>>
  /\ UNCHANGED <<fvars, dvars, ovars>>

\* r.text() or the body iterator rejects: the connection broke while the body
\* was being read.
BodyFails(j) ==
  /\ micro = <<>>
  /\ call[j] \in {"body", "errbody"}
  /\ CallFails(j, "failed", FetchError)
  /\ timer' = [timer EXCEPT ![j] = "cleared"]
  /\ UNCHANGED quiet
  /\ UNCHANGED <<hstate, backend, reply, resvars>>
  /\ UNCHANGED <<fvars, dvars, ovars>>

\* The end of streamOllamaToAnthropic: both closing events, res.end(), and
\* the finally block; leaving the loop also closes the backend body.
StreamCloses(j, written) ==
  /\ out' = [out EXCEPT ![j] = written \o StopEvents]
  /\ ended' = [ended EXCEPT ![j] = TRUE]
  /\ call' = [call EXCEPT ![j] = "closed"]
  /\ timer' = [timer EXCEPT ![j] = "cleared"]
  /\ FnSettled(j, "ok", NoErr, micro)

\* One decoded frame of the backend stream reaches the for-await loop:
\* a delta is written when the frame carries non-empty text, and a finish
\* reason leaves the loop.
Frame(j, text, finish) ==
  /\ micro = <<>>
  /\ kind[j] = "stream"
  /\ call[j] = "body"
  /\ text \in {"", "a"}
  /\ LET written == IF text # "" THEN Append(out[j], Delta(text)) ELSE out[j]
     IN IF finish
        THEN /\ StreamCloses(j, written)
             /\ UNCHANGED <<hstate, backend, reply, failPhase, status, headersSent>>
             /\ UNCHANGED quiet
        ELSE /\ Len(written) <= Len(StartEvents) + MaxDeltas
             /\ out' = [out EXCEPT ![j] = written]
             /\ UNCHANGED qvars
             /\ UNCHANGED <<hstate, call, backend, reply, timer, failPhase,
                            status, headersSent, ended>>
  /\ UNCHANGED <<fvars, dvars, ovars>>

\* The decoder returns: a [DONE] payload, or the end of the backend body.
StreamDone(j) ==
  /\ micro = <<>>
  /\ kind[j] = "stream"
  /\ call[j] = "body"
  /\ StreamCloses(j, out[j])
  /\ UNCHANGED quiet
  /\ UNCHANGED <<hstate, backend, reply, failPhase, status, headersSent>>
  /\ UNCHANGED <<fvars, dvars, ovars>>

\* The timer set by setTimeout(() => ac.abort(), OLLAMA_TIMEOUT_MS) fires
\* while the call is in progress: fetch, r.text() or the body iterator
\* rejects with AbortError.
Timeout(j) ==
  /\ micro = <<>>
  /\ timer[j] = "armed"
  /\ timer' = [timer EXCEPT ![j] = "fired"]
  /\ CallFails(j, OnAbort(call[j]), AbortError)
  /\ UNCHANGED quiet
  /\ UNCHANGED <<hstate, backend, reply, resvars>>
  /\ UNCHANGED <<fvars, dvars, ovars>>

\* res.setHeader after the head was flushed throws ERR_HTTP_HEADERS_SENT.
SetSSEThrows(j) == headersSent[j]

\* The handler after `await runQueued(...)` returns or throws.
\*   resolved, streaming:  return
\*   resolved, JSON:       res.json(envelope)
\*   rejected, streaming:  setSSE, the five error events, res.end()
\*   rejected, JSON:       res.status(502).json(envelope)
CallerHandler(j) ==
  /\ IsHead("caller", j)
  /\ kind[j] \in {"json", "stream"}
  /\ micro' = Tail(micro)
  /\ notified' = [notified EXCEPT ![j] = TRUE]
  /\ IF future[j] = "resolved"
     THEN /\ hstate' = [hstate EXCEPT ![j] = "done"]
          /\ IF kind[j] = "json"
             THEN /\ out' = [out EXCEPT ![j] = Append(out[j], Envelope(ExtractContent(reply[j])))]
                  /\ status' = [status EXCEPT ![j] = 200]
                  /\ headersSent' = [headersSent EXCEPT ![j] = TRUE]
                  /\ ended' = [ended EXCEPT ![j] = TRUE]
             ELSE UNCHANGED resvars
     ELSE IF kind[j] = "stream"
     THEN IF SetSSEThrows(j)
          THEN /\ hstate' = [hstate EXCEPT ![j] = "threw"]
               /\ UNCHANGED resvars
          ELSE /\ hstate' = [hstate EXCEPT ![j] = "done"]
               /\ out' = [out EXCEPT ![j] = out[j] \o ErrorEvents(FriendlyMsg(fnErr[j]))]
               /\ status' = [status EXCEPT ![j] = 200]
               /\ headersSent' = [headersSent EXCEPT ![j] = TRUE]
               /\ ended' = [ended EXCEPT ![j] = TRUE]
     ELSE /\ hstate' = [hstate EXCEPT ![j] = "done"]
          /\ out' = [out EXCEPT ![j] = Append(out[j], Envelope(FriendlyMsg(fnErr[j])))]
          /\ status' = [status EXCEPT ![j] = 502]
          /\ headersSent' = [headersSent EXCEPT ![j] = TRUE]
          /\ ended' = [ended EXCEPT ![j] = TRUE]
  /\ UNCHANGED <<conf, inflight, q, nextId, lastResult, kind, jstate, fnOutcome,
                 fnErr, future, hist>>
  /\ UNCHANGED <<call, backend, reply, timer, failPhase>>
  /\ UNCHANGED <<fvars, dvars, ovars>>

\* MAX_INFLIGHT = Number(process.env.MAX_INFLIGHT || 1), here a positive count.
MaxInflightArgs == {[nan |-> FALSE, n |-> i] : i \in 1..MaxLimit}

\* The proxy builds its queue with new Queue(MAX_INFLIGHT) and no options.
InitP ==
  /\ InitQueue(MaxInflightArgs, {<<>>})
  /\ InitProxyVars
  /\ InitFront
  /\ InitDecoderIdle
  /\ InitOthersIdle

NextP ==
  \/ \E k \in {"json", "stream"} : Post(k)
  \/ \E j \in Jobs : InvokeCall(j)
  \/ \E j \in Jobs : FetchFails(j)
  \/ \E j \in Jobs, b \in {"ok", "notfound", "error"} : Headers(j, b)
  \/ \E j \in Jobs, r \in {"absent", "hello"} : BodyText(j, r)
  \/ \E j \in Jobs : BodyFails(j)
  \/ \E j \in Jobs, t \in {"", "a"}, f \in BOOLEAN : Frame(j, t, f)
  \/ \E j \in Jobs : StreamDone(j)
  \/ \E j \in Jobs : Timeout(j)
  \/ \E j \in Jobs : Forward(j)
  \/ \E j \in Jobs : CallerHandler(j)
  \/ \E j \in Jobs : Finally(j)

SpecP == InitP /\ [][NextP]_vars

\* The front door: every kind of request, while the backend calls of the
\* requests let in are pending, running, or timed out.
InitA == InitP

NextA ==
  \/ \E ip \in Ips, h \in AuthHeaders, v \in MessagesValues, k \in {"json", "stream"} :
       PostMessages(ip, h, v, k)
  \/ \E h \in AuthHeaders : GetModels(h)
  \/ \E j \in Jobs : InvokeCall(j)
  \/ \E j \in Jobs : Timeout(j)
  \/ \E j \in Jobs : Forward(j)
  \/ \E j \in Jobs : CallerHandler(j)
  \/ \E j \in Jobs : Finally(j)

SpecA == InitA /\ [][NextA]_vars

\* The rate limiter over the windows of the clock.
InitW == InitP

NextW ==
  \/ \E ip \in Ips, h \in {<<>>, <<"Bearer", Bearer>>} :
       PostMessages(ip, h, "array", "json")
  \/ \E t \in 0..MaxTime : SetClock(t)
  \/ \E j \in Jobs : InvokeCall(j)

SpecW == InitW /\ [][NextW]_vars

\* ------------------------------------------- proxy.mjs: openAISSEToJSON
\* The backend body is a sequence of bytes.  A byte is written as a
\* one-character string, except the two bytes of the UTF-8 encoding of a
\* character outside ASCII, "c3" "a9" (U+00E9), whose decoded character is
\* written "E9"; "FFFD" is the replacement character.  The JSON text of a
\* frame is reduced to "{" content "}" with an optional "!" before the
\* brace for a finish_reason: JSON.parse accepts exactly these texts.  The
\* content is a run of characters (a string), "''" (the empty string), "7"
\* (a number), or nothing (no content field).
Data == <<"d", "a", "t", "a", ":">>
Blank == <<"\n", "\n">>
DoneText == <<"[", "D", "O", "N", "E", "]">>

\* The frames a backend body is made of.
FrameKinds ==
  {"text", "wide", "finish", "bad", "done", "comment", "empty", "named",
   "role", "blank", "num"}

\* The bytes of one frame.  "cut" is a frame whose blank line never came.
FrameBytes(f) ==
  CASE f = "text"    -> Data \o <<" ", "{", "x", "}">> \o Blank
    [] f = "wide"    -> Data \o <<" ", "{", "c3", "a9", "}">> \o Blank
    [] f = "finish"  -> Data \o <<" ", "{", "x", "!", "}">> \o Blank
    [] f = "bad"     -> Data \o <<" ", "{", "x">> \o Blank
    [] f = "done"    -> Data \o <<" ">> \o DoneText \o Blank
    [] f = "comment" -> <<":">> \o Blank
    [] f = "empty"   -> Data \o <<" ">> \o Blank
    [] f = "named"   -> <<"e", "\n">> \o Data \o <<"{", "x", "}">> \o Blank
    [] f = "role"    -> Data \o <<" ", "{", "}">> \o Blank
    [] f = "blank"   -> Data \o <<" ", "{", "''", "}">> \o Blank
    [] f = "num"     -> Data \o <<" ", "{", "7", "}">> \o Blank
    [] f = "cut"     -> Data \o <<" ", "{", "x", "}">>

RECURSIVE Wire(_)
Wire(fs) == IF fs = <<>> THEN <<>> ELSE FrameBytes(Head(fs)) \o Wire(Tail(fs))

\* Bodies of at most MaxFrames frames, the last of which may be unfinished.
Bodies ==
  LET whole == UNION {[1..n -> FrameKinds] : n \in 0..MaxFrames}
  IN whole \cup {Append(fs, "cut") : fs \in {w \in whole : Len(w) < MaxFrames}}

\* chunk.toString("utf8"): a complete two-byte sequence is its character; a
\* lead byte with no continuation byte after it in this chunk, and a
\* continuation byte with no lead byte before it, are each replaced by U+FFFD.
RECURSIVE Utf8(_)
Utf8(bs) ==
  IF bs = <<>> THEN <<>>
  ELSE IF Head(bs) = "c3"
  THEN IF Len(bs) >= 2 /\ bs[2] = "a9"
       THEN <<"E9">> \o Utf8(SubSeq(bs, 3, Len(bs)))
       ELSE <<"FFFD">> \o Utf8(Tail(bs))
  ELSE IF Head(bs) = "a9" THEN <<"FFFD">> \o Utf8(Tail(bs))
  ELSE <<Head(bs)>> \o Utf8(Tail(bs))

\* buf.indexOf("\n\n"), counted from 1; 0 when there is none.
RECURSIVE IndexOfBlankFrom(_, _)
IndexOfBlankFrom(b, i) ==
  IF i >= Len(b) THEN 0
  ELSE IF b[i] = "\n" /\ b[i + 1] = "\n" THEN i
  ELSE IndexOfBlankFrom(b, i + 1)

IndexOfBlank(b) == IndexOfBlankFrom(b, 1)

\* part.split("\n")
RECURSIVE SplitLines(_, _)
SplitLines(s, cur) ==
  IF s = <<>> THEN <<cur>>
  ELSE IF Head(s) = "\n" THEN <<cur>> \o SplitLines(Tail(s), <<>>)
  ELSE SplitLines(Tail(s), Append(cur, Head(s)))

StartsWithData(l) == Len(l) >= Len(Data) /\ SubSeq(l, 1, Len(Data)) = Data

\* .find(l => l.startsWith("data:")): <<the first such line>>, or <<>>.
FindDataLine(ls) ==
  LET hits == {i \in 1..Len(ls) : StartsWithData(ls[i])}
  IN IF hits = {} THEN <<>>
     ELSE <<ls[CHOOSE i \in hits : \A k \in hits : i <= k]>>

\* String.prototype.trim
RECURSIVE Trim(_)
Trim(s) ==
  IF s = <<>> THEN s
  ELSE IF Head(s) = " " THEN Trim(Tail(s))
  ELSE IF s[Len(s)] = " " THEN Trim(SubSeq(s, 1, Len(s) - 1))
  ELSE s

\* line.slice(5).trim()
Payload(line) == Trim(SubSeq(line, Len(Data) + 1, Len(line)))

ContentChars == {"x", "E9", "FFFD"}

\* Whether JSON.parse(payload) returns (rather than throws).
IsJson(p) ==
  /\ Len(p) >= 2
  /\ p[1] = "{"
  /\ p[Len(p)] = "}"
  /\ \A i \in 2..(Len(p) - 1) :
       \/ p[i] \in ContentChars
       \/ p[i] = "!" /\ i = Len(p) - 1
       \/ p[i] \in {"''", "7"} /\ i = 2

RECURSIVE Join(_)
Join(s) == IF s = <<>> THEN "" ELSE Head(s) \o Join(Tail(s))

\* JSON.parse(payload), as far as the translator reads it:
\* choices[0].delta.content and choices[0].finish_reason.
ParseJson(p) ==
  LET fin == Len(p) >= 3 /\ p[Len(p) - 1] = "!"
      inner == SubSeq(p, 2, Len(p) - (IF fin THEN 2 ELSE 1))
  IN [ctype |-> IF inner = <<>> THEN "undefined"
                ELSE IF inner = <<"7">> THEN "number" ELSE "string",
      content |-> IF inner = <<"''">> THEN "" ELSE Join(inner),
      finish |-> fin]

\* A bug that drops the typeof test: any truthy content is written.
IsTextAnyType(evt) == evt.content # ""

\* typeof txt === "string" && txt.length
IsText(evt) == evt.ctype = "string" /\ evt.content # ""

\* A bug that tests the finish reason before it writes the delta.
ConsumeBreakFirst(evt) ==
  IF evt.finish THEN [out |-> <<>>, stop |-> TRUE]
  ELSE [out |-> IF IsText(evt) THEN <<Delta(evt.content)>> ELSE <<>>,
        stop |-> FALSE]

\* The body of the for-await loop of streamOllamaToAnthropic: a delta for
\* non-empty content, then `if (finish) break`.
Consume(evt) ==
  [out |-> IF IsText(evt) THEN <<Delta(evt.content)>> ELSE <<>>,
   stop |-> evt.finish]

RECURSIVE Drain(_, _)

\* A bug that gives up at the first frame that does not parse.
CaughtReturns(b, acc) == [buf |-> b, out |-> acc, stopped |-> TRUE]

\* catch { /* ignore */ }: on to the next frame.
Caught(b, acc) == Drain(b, acc)

\* The while (true) loop of openAISSEToJSON over buf, each yielded event
\* handed to the loop body of the translator at once.  The result is what
\* is left in buf, the events written, and whether the generator returned
\* ([DONE]) or was closed by the translator's break.
Drain(b, acc) ==
  LET idx == IndexOfBlank(b)
      part == SubSeq(b, 1, idx - 1)
      rest == SubSeq(b, idx + 2, Len(b))
      line == FindDataLine(SplitLines(part, <<>>))
      payload == Payload(line[1])
      c == Consume(ParseJson(payload))
  IN IF idx = 0 THEN [buf |-> b, out |-> acc, stopped |-> FALSE]
     ELSE IF line = <<>> THEN Drain(rest, acc)
     ELSE IF payload = <<>> THEN Drain(rest, acc)
     ELSE IF payload = DoneText THEN [buf |-> rest, out |-> acc, stopped |-> TRUE]
     ELSE IF ~IsJson(payload) THEN Caught(rest, acc)
     ELSE IF c.stop THEN [buf |-> rest, out |-> acc \o c.out, stopped |-> TRUE]
     ELSE Drain(rest, acc \o c.out)

\* The translator has written its opening events and starts to read a body.
InitD ==
  /\ InitQueue({[nan |-> FALSE, n |-> 1]}, {<<>>})
  /\ InitProxyVars
  /\ InitFront
  /\ InitOthersIdle
  /\ frames \in Bodies
  /\ pos = 0
  /\ buf = <<>>
  /\ decoded = <<>>
  /\ dout = StartEvents
  /\ dphase = "reading"

\* The next n bytes of the body arrive as one chunk: buf += chunk.toString(),
\* then every complete frame in buf is decoded and consumed.  When the loop
\* is left, the closing events are written.
Chunk(n) ==
  /\ dphase = "reading"
  /\ n >= 1
  /\ pos + n <= Len(Wire(frames))
  /\ \E chars \in {Utf8(SubSeq(Wire(frames), pos + 1, pos + n))} :
       \E d \in {Drain(buf \o chars, <<>>)} :
         /\ pos' = pos + n
         /\ decoded' = decoded \o chars
         /\ buf' = d.buf
         /\ dout' = dout \o d.out \o (IF d.stopped THEN StopEvents ELSE <<>>)
         /\ dphase' = IF d.stopped THEN "closed" ELSE "reading"
  /\ UNCHANGED frames
  /\ UNCHANGED <<qvars, pvars, fvars, ovars>>

\* A bug that decodes what is left in buf when the body ends, as if its
\* blank line had come.
EndOfBodyFlushes ==
  /\ dphase = "reading"
  /\ pos = Len(Wire(frames))
  /\ dout' = dout \o Drain(buf \o Blank, <<>>).out \o StopEvents
  /\ dphase' = "closed"
  /\ UNCHANGED <<frames, pos, buf, decoded>>
  /\ UNCHANGED <<qvars, pvars, fvars, ovars>>

\* The body ends: the generator finishes, whatever is left in buf is
\* dropped, and the closing events are written.
EndOfBody ==
  /\ dphase = "reading"
  /\ pos = Len(Wire(frames))
  /\ dout' = dout \o StopEvents
  /\ dphase' = "closed"
  /\ UNCHANGED <<frames, pos, buf, decoded>>
  /\ UNCHANGED <<qvars, pvars, fvars, ovars>>

NextD ==
  \/ \E n \in 1..(Len(Wire(frames)) - pos) : Chunk(n)
  \/ EndOfBody

SpecD == InitD /\ [][NextD]_vars

\* ------------------------------------------------------------- claims
\* C1: in every reachable state of the queue (after any sequence of enqueue,
\* settlement and clear) the number of running jobs, and the counter that
\* tracks it, is at most the limit.
C1_RunningAtMostLimit ==
  /\ Cardinality(Holding) <= limit
  /\ inflight <= limit

\* C1 witness: the limit is reached with a job left waiting.
C1_Witness == limit >= 2 /\ Cardinality(Holding) = limit /\ q # <<>>

\* Accepted jobs that clear() did not discard and that precede job b.
Before(b) == {a \in 1..(b - 1) : jstate[a] # "cleared"}

\* C2: job functions are invoked in the order the jobs were enqueued (job ids
\* number the accepted jobs in enqueue order): the invocation order is
\* increasing, and when a job is invoked every job enqueued before it and not
\* discarded has been invoked already.
C2_StartInEnqueueOrder ==
  /\ \A m, n \in 1..Len(startOrder) : m < n => startOrder[m] < startOrder[n]
  /\ \A b \in Elems(startOrder) : Before(b) \subseteq Elems(startOrder)

\* C2 witness: three jobs were invoked, the later ones after waiting.
C2_Witness ==
  /\ Len(startOrder) >= 3
  /\ pre[2] >= 1
  /\ \A j \in Jobs : jstate[j] # "cleared"

\* C5 as stated: once the future of a failing job has settled, the running
\* count is back at its value before the enqueue (nothing else having taken
\* or released a slot meanwhile), and no job waits while a slot is free.
C5_SlotBackOnceFutureSettled ==
  /\ \A j \in Jobs :
       (fnOutcome[j] = "fail" /\ future[j] = "rejected" /\ ~disturbed[j])
         => inflight = pre[j]
  /\ \A j \in Jobs :
       (fnOutcome[j] = "fail" /\ jstate[j] = "released" /\ micro = <<>>)
         => (q = <<>> \/ inflight = limit)

\* C6: with limit 1 a job is not invoked before every earlier job has
\* settled, and once they have it is invoked before any further external
\* event (that is, by the time the reaction queue has drained).
C6_PumpLiveness ==
  limit = 1 =>
    \A b \in Jobs :
      jstate[b] \notin {"none", "cleared"} =>
        /\ b \in Elems(startOrder) => \A a \in Before(b) : fnOutcome[a] # "none"
        /\ (micro = <<>> /\ \A a \in Before(b) : fnOutcome[a] # "none")
             => b \in Elems(startOrder)

\* C6 witness: B was enqueued while A ran, A settled on its signal, B runs.
C6_Witness ==
  /\ limit = 1
  /\ signalled[1]
  /\ pre[2] = 1
  /\ startOrder = <<1, 2>>
  /\ jstate[2] = "running"
  /\ micro = <<>>

Types(o) == [i \in 1..Len(o) |-> o[i].type]

\* message_start, content_block_start, deltas only, content_block_stop,
\* message_stop.
WellFormedStream(o) ==
  /\ Len(o) >= 4
  /\ SubSeq(Types(o), 1, 2) = <<"message_start", "content_block_start">>
  /\ \A i \in 3..(Len(o) - 2) : o[i].type = "content_block_delta"
  /\ SubSeq(Types(o), Len(o) - 1, Len(o)) = <<"content_block_stop", "message_stop">>

Finished(j) == hstate[j] \in {"done", "threw"}

\* The texts the catch block puts where model output would be.
FailureTexts ==
  {"model not found: pull the model", "inference timed out", "model call failed"}

\* C3 as stated: whatever the backend does, the output of a streaming request
\* whose handler has finished is message_start, content_block_start, zero or
\* more content_block_delta, content_block_stop, message_stop.
C3_StreamEnvelopeComplete ==
  \A j \in Jobs : (kind[j] = "stream" /\ Finished(j)) => WellFormedStream(out[j])

\* C4: a backend call is in flight only for a job that holds a queue slot, so
\* the calls in flight number at most the running count, which is at most the
\* limit.
C4_CallsHoldSlots ==
  /\ InCall \subseteq Holding
  /\ Cardinality(InCall) <= inflight
  /\ inflight <= limit

\* C4 witness: one request calls the backend while another waits its turn.
C4_Witness ==
  /\ limit = 1
  /\ Cardinality(InCall) = 1
  /\ q # <<>>
  /\ \E j \in Jobs : hstate[j] = "waiting" /\ call[j] = "none"

\* C7 as stated, in the form a finite run decides: once the handler of a
\* request has finished, the response is terminated (JSON body sent, or
\* res.end() on the SSE stream).
C7_ResponseTerminated ==
  \A j \in Jobs : Finished(j) => ended[j]

\* The backend answered 2xx and the body was read to its end.
BackendSucceeded(j) == backend[j] = "ok" /\ call[j] = "closed"

\* C8: a non-streaming request gets exactly one envelope with stop_reason
\* end_turn, sent by the time the reactions of the settled call have run: with
\* a 2xx status and the first choice's text ("" when absent) when the backend
\* succeeded, otherwise with a non-2xx status and an error description.
C8_JsonEnvelope ==
  \A j \in Jobs :
    kind[j] = "json" =>
      /\ (fnOutcome[j] # "none" /\ micro = <<>>) => hstate[j] = "done"
      /\ hstate[j] \in {"idle", "waiting", "done"}
      /\ hstate[j] = "done" =>
           /\ Len(out[j]) = 1
           /\ out[j][1].type = "message"
           /\ out[j][1].stop = "end_turn"
           /\ ended[j]
           /\ IF BackendSucceeded(j)
              THEN /\ status[j] \in 200..299
                   /\ out[j][1].text = (IF reply[j] = "absent" THEN "" ELSE reply[j])
              ELSE /\ status[j] \notin 200..299
                   /\ status[j] # 0
                   /\ out[j][1].text \in FailureTexts

\* C8 witness: one request answered from a body without content, another
\* answered with an error envelope.
C8_Witness ==
  \E j, k \in Jobs :
    /\ kind[j] = "json" /\ hstate[j] = "done" /\ BackendSucceeded(j)
    /\ reply[j] = "absent"
    /\ kind[k] = "json" /\ hstate[k] = "done" /\ ~BackendSucceeded(k)

\* The streaming call failed before it wrote message_start.
FailedBeforeStart(j) ==
  /\ kind[j] = "stream"
  /\ fnOutcome[j] = "fail"
  /\ failPhase[j] \in {"headers", "errbody"}

\* C9: when the streaming call fails or times out before message_start was
\* written, the caller gets the five events, the single delta carrying a
\* failure description (the timeout text after a timeout), and the stream is
\* closed.
C9_ErrorStreamBeforeStart ==
  \A j \in Jobs :
    (FailedBeforeStart(j) /\ notified[j]) =>
      /\ hstate[j] = "done"
      /\ Types(out[j]) = <<"message_start", "content_block_start",
                           "content_block_delta", "content_block_stop",
                           "message_stop">>
      /\ out[j][3].text \in FailureTexts
      /\ timer[j] = "fired" => out[j][3].text = "inference timed out"
      /\ ended[j]

\* C9 witness: a non-2xx answer, and a timeout while waiting for the head.
C9_Witness ==
  \E j, k \in Jobs :
    /\ FailedBeforeStart(j) /\ failPhase[j] = "errbody" /\ hstate[j] = "done"
    /\ FailedBeforeStart(k) /\ timer[k] = "fired" /\ hstate[k] = "done"

\* C10, in every state: a timer that fired has aborted the backend call and
\* failed the job's function with AbortError, and the slot is released by the
\* time the reactions have run.
C10_TimedOut ==
  \A j \in Jobs :
    timer[j] = "fired" =>
      /\ failPhase[j] \in {"headers", "body", "errbody"}
      /\ call[j] = "aborted"
      /\ fnOutcome[j] = "fail"
      /\ fnErr[j].name = "AbortError"
      /\ micro = <<>> => jstate[j] = "released"

\* C10, in every step: the release of a timed-out job's slot takes one from
\* the running count and admits the head of the pending list.
C10_ReleaseAdmitsNext ==
  \A j \in Jobs :
    (timer[j] = "fired" /\ jstate[j] = "settled" /\ jstate'[j] = "released") =>
      IF q = <<>>
      THEN inflight' = inflight - 1
      ELSE /\ inflight' = inflight
           /\ q' = Tail(q)
           /\ jstate'[Head(q)] = "admitted"

\* C10: when the timeout elapses during a backend call (waiting for the head
\* or reading the body) the connection is aborted, the job's function fails
\* with the abort indicator, and its slot is released and given to the next
\* pending job.
C10_TimeoutReleasesSlot == []C10_TimedOut /\ [][C10_ReleaseAdmitsNext]_vars

\* C10 witness: a call timed out while reading the body, its slot went to the
\* request behind it, which is now calling the backend.
C10_Witness ==
  \E j, k \in Jobs :
    /\ limit = 1
    /\ j < k
    /\ timer[j] = "fired" /\ failPhase[j] = "body" /\ jstate[j] = "released"
    /\ call[k] = "headers"

\* C11: the promise enqueue returned settles with its own job's outcome
\* (resolved exactly when that job's fn succeeded, rejected exactly when it
\* failed), and a failure stops nothing: once the reactions have drained,
\* every job whose fn settled has delivered its outcome to its enqueuer and
\* given its slot back, and a job is left pending only while every slot is
\* held by a job that is still running.
C11_OwnOutcomeOnly ==
  /\ \A j \in Jobs :
       /\ future[j] = "resolved" => fnOutcome[j] = "ok"
       /\ future[j] = "rejected" => fnOutcome[j] = "fail"
  /\ micro = <<>> =>
       /\ \A j \in Jobs :
            fnOutcome[j] # "none" =>
              /\ future[j] = (IF fnOutcome[j] = "ok" THEN "resolved" ELSE "rejected")
              /\ notified[j]
              /\ jstate[j] = "released"
       /\ q # <<>> => Cardinality({j \in Jobs : jstate[j] = "running"}) = limit

\* A job failed, and a job enqueued behind it while it held the only slot
\* ran afterwards and resolved.
C11_Witness ==
  \E j, k \in Jobs :
    /\ j < k
    /\ limit = 1
    /\ future[j] = "rejected"
    /\ pre[k] = 1
    /\ future[k] = "resolved"
    /\ notified[k]

\* C12: a job whose completion has been signalled to its enqueuer (the
\* promise enqueue returned is settled) has already given its slot back.
C12_ReleasedBeforeSignalled ==
  \A j \in Jobs : future[j] # "pending" => jstate[j] = "released"

\* C15: with a maximum pending length configured the pending list never
\* grows past it; no enqueue is accepted while the list holds that many jobs;
\* and the enqueue that is turned away with "Queue is full" finds the list
\* full and leaves the pending list, the running count, the jobs and the
\* reactions exactly as they were.
C15_Capped == maxQueueLength # <<>> => Len(q) <= maxQueueLength[1]

C15_FullStep ==
  /\ nextId' # nextId => ~(maxQueueLength # <<>> /\ Len(q) >= maxQueueLength[1])
  /\ (lastResult' = "Queue is full" /\ lastResult # "Queue is full") =>
       /\ maxQueueLength # <<>> /\ Len(q) >= maxQueueLength[1]
       /\ UNCHANGED <<q, inflight, nextId, kind, jstate, future, micro>>

C15_QueueFull == []C15_Capped /\ [][C15_FullStep]_vars

\* An enqueue was turned away while one job ran and one job waited under a
\* cap of 1.
C15_Witness ==
  /\ maxQueueLength = <<1>>
  /\ lastResult = "Queue is full"
  /\ Len(q) = 1
  /\ inflight = 1

\* C16: no value that is not a function ever becomes a job, and the enqueue
\* that fails with the TypeError leaves the pending list, the running count,
\* the jobs and the reactions exactly as they were.
C16_OnlyFunctionsAreJobs ==
  \A j \in Jobs : kind[j] \in {"none", "plain", "json", "stream"}

C16_TypeErrorStep ==
  (lastResult' = "TypeError" /\ lastResult # "TypeError") =>
    UNCHANGED <<q, inflight, nextId, kind, jstate, future, micro>>

C16_NonFunctionRejected ==
  []C16_OnlyFunctionsAreJobs /\ [][C16_TypeErrorStep]_vars

\* C17: the step of clear() that discards jobs empties the pending list,
\* turns exactly the pending jobs into discarded ones, and changes neither
\* the running count, nor a job that is not pending, nor any future, nor the
\* reactions; afterwards the running count still is the number of jobs
\* holding a slot, a discarded job's fn is never invoked and its future stays
\* pending, and once the reactions have drained every job whose fn settled
\* has delivered its outcome.
C17_ClearStep ==
  (\E j \in Jobs : jstate[j] # "cleared" /\ jstate'[j] = "cleared") =>
    /\ q' = <<>>
    /\ jstate' = [j \in Jobs |-> IF jstate[j] = "pending" THEN "cleared" ELSE jstate[j]]
    /\ UNCHANGED <<inflight, micro, future, fnOutcome, notified, startOrder>>

C17_AfterClear ==
  /\ inflight = Cardinality(Holding)
  /\ \A j \in Jobs :
       jstate[j] = "cleared" =>
         /\ future[j] = "pending"
         /\ fnOutcome[j] = "none"
         /\ ~notified[j]
         /\ j \notin Elems(startOrder) \cup Elems(q)
  /\ ((\E c \in Jobs : jstate[c] = "cleared") /\ micro = <<>>) =>
       \A j \in Jobs : fnOutcome[j] # "none" => (future[j] # "pending" /\ notified[j])

C17_ClearOnlyPending == []C17_AfterClear /\ [][C17_ClearStep]_vars

\* Job c was discarded while job r held the only slot, and r settled on a
\* later signal and delivered its outcome.
C17_Witness ==
  \E r, c \in Jobs :
    /\ limit = 1
    /\ r < c
    /\ jstate[c] = "cleared"
    /\ signalled[r]
    /\ notified[r]
    /\ jstate[r] = "released"

\* A step in which a request arrived: only the route handlers write the
\* rate counter and the request record.  (A step that repeats the latest
\* request and is turned away by the rate limiter changes nothing at all.)
Arrived == lastHttp' # lastHttp \/ requests' # requests

Unauthorized(r) ==
  /\ r.route \in {"POST /v1/messages", "GET /v1/models"}
  /\ r.auth # <<"Bearer", "local">>

QueueUntouched == UNCHANGED <<q, inflight, nextId, micro, jstate, kind, call, timer>>

\* C13 as stated: every POST /v1/messages and GET /v1/models request whose
\* Authorization header is not "Bearer <secret>" is answered 401, with the
\* pending list, the running count and the backend calls unchanged.
C13_UnauthorizedStep ==
  (Arrived /\ Unauthorized(lastHttp')) =>
    (lastHttp'.status = 401 /\ QueueUntouched)

C13_Unauthorized401 == [][C13_UnauthorizedStep]_vars

\* C13 amended: such a request is answered 401 unless it is a POST that the
\* rate limiter, which runs before the header is looked at, turns away with
\* 429; in both cases the pending list, the running count and the backend
\* calls are unchanged.
C13_WithinRateStep ==
  (Arrived /\ Unauthorized(lastHttp')) =>
    /\ QueueUntouched
    /\ lastHttp'.status =
         (IF /\ lastHttp'.route = "POST /v1/messages"
             /\ requests[Key(lastHttp'.ip, clock)] >= RateMax
          THEN 429 ELSE 401)

C13_Unauthorized401WithinRate == [][C13_WithinRateStep]_vars

\* A POST with a wrong token was answered 401 while one request was running
\* and another was waiting for the slot.
C13_Witness ==
  /\ lastHttp.route = "POST /v1/messages"
  /\ lastHttp.auth = <<"Bearer", "wrong">>
  /\ lastHttp.status = 401
  /\ q # <<>>
  /\ \E j \in Jobs : call[j] = "headers"

BadBody(r) ==
  /\ r.route = "POST /v1/messages"
  /\ r.messages \in {"undefined", "string"}

\* C14 as stated: every POST /v1/messages request without a messages field,
\* or with one that is not an array, is answered 400 and is not enqueued.
C14_BadBodyStep ==
  (Arrived /\ BadBody(lastHttp')) =>
    (lastHttp'.status = 400 /\ QueueUntouched)

C14_BadBody400 == [][C14_BadBodyStep]_vars

\* C14 amended: such a request is never enqueued, and it is answered 400
\* when it gets as far as the validation: 429 when the rate limiter turns it
\* away, else 401 when the bearer token is wrong, else 400.
C14_ValidatedStep ==
  (Arrived /\ BadBody(lastHttp')) =>
    /\ QueueUntouched
    /\ lastHttp'.status =
         (IF requests[Key(lastHttp'.ip, clock)] >= RateMax THEN 429
          ELSE IF lastHttp'.auth # <<"Bearer", "local">> THEN 401
          ELSE 400)

C14_BadBody400AfterAuth == [][C14_ValidatedStep]_vars

\* An authorized POST whose messages field is a string was answered 400
\* while one request was running and another was waiting for the slot.
C14_Witness ==
  /\ lastHttp.route = "POST /v1/messages"
  /\ lastHttp.auth = <<"Bearer", "local">>
  /\ lastHttp.messages = "string"
  /\ lastHttp.status = 400
  /\ q # <<>>
  /\ \E j \in Jobs : call[j] = "headers"

\* C18 as stated: however the body is cut into chunks, once the translator
\* has closed the output it has written what it writes when the whole body
\* arrives as one chunk.
C18_SplitInvariant ==
  dphase = "closed" =>
    dout = StartEvents \o Drain(Utf8(Wire(frames)), <<>>).out \o StopEvents

\* A complete frame that carries a payload which is neither [DONE] nor JSON.
Malformed(part) ==
  LET line == FindDataLine(SplitLines(part, <<>>))
  IN /\ line # <<>>
     /\ Payload(line[1]) \notin {<<>>, DoneText}
     /\ ~IsJson(Payload(line[1]))

\* The decoded characters with every malformed frame taken out.
RECURSIVE Clean(_)
Clean(t) ==
  LET idx == IndexOfBlank(t)
      part == SubSeq(t, 1, idx - 1)
      rest == SubSeq(t, idx + 2, Len(t))
  IN IF idx = 0 THEN t
     ELSE IF Malformed(part) THEN Clean(rest)
     ELSE part \o Blank \o Clean(rest)

\* C19: at every moment the events written are those the decoder and the
\* translator produce for the characters received so far with the malformed
\* frames removed: a malformed frame adds no delta, and the frames after it
\* are still decoded.
C19_MalformedDropped ==
  dout = StartEvents \o Drain(Clean(decoded), <<>>).out
         \o (IF dphase = "closed" THEN StopEvents ELSE <<>>)

\* A malformed frame was followed by a text frame: the text frame's delta
\* has been written and the translator is still reading what comes next.
C19_Witness ==
  /\ frames = <<"bad", "text">>
  /\ dphase = "reading"
  /\ pos = Len(Wire(frames))
  /\ dout = StartEvents \o <<Delta("x")>>

IsTerminator(f) == f \in {"done", "finish"}

\* The index of the first frame that ends the decoding, 0 when none does.
FirstTerminator(fs) ==
  LET hits == {i \in 1..Len(fs) : IsTerminator(fs[i])}
  IN IF hits = {} THEN 0 ELSE CHOOSE i \in hits : \A k \in hits : i <= k

\* Frames whose payload is JSON with non-empty content.
HasContent(f) == f \in {"text", "wide", "finish", "named"}

\* C20: when the body has a [DONE] frame or a frame with a finish reason,
\* the output is closed exactly when the last byte of the first such frame
\* has arrived; it then is message_start, content_block_start, one delta
\* for each frame with content up to and including that frame, and the two
\* closing events; the delta of a finish-reason frame is the last delta.
C20_EndsAtTerminator ==
  LET t == FirstTerminator(frames)
      upto == SubSeq(frames, 1, t)
  IN t > 0 =>
       /\ dphase = "closed" <=> pos >= Len(Wire(upto))
       /\ dphase = "closed" =>
            /\ WellFormedStream(dout)
            /\ Len(dout) - 4 = Cardinality({i \in 1..t : HasContent(frames[i])})
            /\ frames[t] = "finish" => dout[Len(dout) - 2] = Delta("x")

\* A finish-reason frame and a text frame behind it arrived in one chunk:
\* the output has the one delta of the finish-reason frame.
C20_Witness ==
  /\ frames = <<"finish", "text">>
  /\ pos = Len(Wire(frames))
  /\ dout = StartEvents \o <<Delta("x")>> \o StopEvents

IsContentChar(c) == c \in ContentChars

\* The characters a decoded frame carries as the string content of its
\* first choice; none when the payload is no JSON, has no content, or has
\* content that is the empty string or no string.
Carried(part) ==
  LET line == FindDataLine(SplitLines(part, <<>>))
      p == IF line = <<>> THEN <<>> ELSE Payload(line[1])
  IN IF IsJson(p) THEN SelectSeq(p, IsContentChar) ELSE <<>>

\* A decoded frame after which nothing more is read: [DONE], or JSON with a
\* finish reason.
Ends(part) ==
  LET line == FindDataLine(SplitLines(part, <<>>))
      p == IF line = <<>> THEN <<>> ELSE Payload(line[1])
  IN p = DoneText \/ (IsJson(p) /\ \E i \in 1..Len(p) : p[i] = "!")

\* The non-empty string contents of the complete frames in the decoded
\* characters, in the order of the frames, up to the frame that ends the
\* reading.
RECURSIVE DecodedTexts(_)
DecodedTexts(t) ==
  LET idx == IndexOfBlank(t)
      part == SubSeq(t, 1, idx - 1)
      rest == SubSeq(t, idx + 2, Len(t))
      own == IF Carried(part) = <<>> THEN <<>> ELSE <<Join(Carried(part))>>
  IN IF idx = 0 THEN <<>>
     ELSE IF Ends(part) THEN own
     ELSE own \o DecodedTexts(rest)

\* C21: at every moment the deltas written are, in the order of the frames,
\* one delta for each decoded frame that carries a non-empty string as its
\* content, with that string as its text; a frame whose content is empty,
\* absent or no string adds no delta.
C21_OneDeltaPerText ==
  LET texts == DecodedTexts(decoded)
  IN dout = StartEvents \o [i \in 1..Len(texts) |-> Delta(texts[i])]
            \o (IF dphase = "closed" THEN StopEvents ELSE <<>>)

\* Two frames with text arrived whole: their deltas were written in the
\* order of the frames.
C21_Witness ==
  /\ frames = <<"wide", "text">>
  /\ dphase = "closed"
  /\ dout = StartEvents \o <<Delta("E9"), Delta("x")>> \o StopEvents

\* ----------------------------------------- proxy.mjs: anthropicToOpenAI
\* anth.system and the content of a message are undefined, a string or an
\* array of content parts.  A part has a type and may have a text: <<>> is
\* a part without a text field, <<t>> one whose text is t.
MaxParts == 2

Str(s) == [kind |-> "string", str |-> s, parts |-> <<>>]
Arr(ps) == [kind |-> "array", str |-> "", parts |-> ps]

Parts ==
  {[type |-> "text", text |-> <<"a">>],
   [type |-> "text", text |-> <<"b">>],
   [type |-> "image", text |-> <<>>]}

PartLists == UNION {[1..n -> Parts] : n \in 0..MaxParts}

Systems == {Undefined, Str(""), Str("s")} \cup {Arr(ps) : ps \in PartLists}
Contents == {Undefined, Str("s")} \cup {Arr(ps) : ps \in PartLists}

\* The roles of the messages of a conversation, in order.
RoleLists ==
  {<<>>, <<"user">>, <<"user", "assistant">>, <<"assistant", "user">>}

MessageLists ==
  UNION {{[i \in 1..Len(rs) |-> [role |-> rs[i], content |-> cs[i]]] :
            cs \in [1..Len(rs) -> Contents]} : rs \in RoleLists}

\* A bug that takes every defined value for a system prompt.
TruthyIfDefined(v) == v.kind # "undefined"

\* if (anth.system): an array is truthy, a string is unless it is empty.
Truthy(v) == v.kind = "array" \/ (v.kind = "string" /\ v.str # "")

\* Array.prototype.join("\n")
RECURSIVE JoinLines(_)
JoinLines(ss) ==
  IF ss = <<>> THEN ""
  ELSE IF Len(ss) = 1 THEN ss[1]
  ELSE ss[1] \o "\n" \o JoinLines(Tail(ss))

\* x.text || "", which is also how join writes an undefined element.
TextOf(x) == IF x.text = <<>> THEN "" ELSE x.text[1]

\* A bug that keeps the parts of every type.
IsTextPartAny(x) == TRUE

\* x.type === "text"
IsTextPart(x) == x.type = "text"

\* A bug that flattens the system prompt as it flattens a message.
SystemTextFiltered(s) ==
  IF s.kind = "array"
  THEN LET kept == SelectSeq(s.parts, IsTextPart)
       IN JoinLines([i \in 1..Len(kept) |-> TextOf(kept[i])])
  ELSE s.str

\* Array.isArray(anth.system) ? anth.system.map(x => x.text || "").join("\n")
\*                             : String(anth.system)
SystemText(s) ==
  IF s.kind = "array"
  THEN JoinLines([i \in 1..Len(s.parts) |-> TextOf(s.parts[i])])
  ELSE s.str

\* The text of one message: the text parts joined, the string itself, or ""
\* for any other content.
ContentText(c) ==
  IF c.kind = "array"
  THEN LET kept == SelectSeq(c.parts, IsTextPart)
       IN JoinLines([i \in 1..Len(kept) |-> TextOf(kept[i])])
  ELSE IF c.kind = "string" THEN c.str
  ELSE ""

AnthropicToOpenAI(a) ==
  (IF Truthy(a.system)
   THEN <<[role |-> "system", content |-> SystemText(a.system)]>>
   ELSE <<>>)
  \o [i \in 1..Len(a.messages) |->
        [role |-> a.messages[i].role,
         content |-> ContentText(a.messages[i].content)]]

\* A request body arrives with some system field.
InitR ==
  /\ InitQueue({[nan |-> FALSE, n |-> 1]}, {<<>>})
  /\ InitProxyVars
  /\ InitFront
  /\ InitDecoderIdle
  /\ InitSelectIdle
  /\ InitHealthIdle
  /\ InitHub
  /\ anth \in {[system |-> s, messages |-> <<>>] : s \in Systems}
  /\ msgs = <<>>
  /\ translated = FALSE

\* const messages = anthropicToOpenAI(anth), for a body with the messages ms.
Translate(ms) ==
  /\ ~translated
  /\ \E a \in {[anth EXCEPT !.messages = ms]} :
       /\ anth' = a
       /\ msgs' = AnthropicToOpenAI(a)
  /\ translated' = TRUE
  /\ UNCHANGED <<qvars, pvars, fvars, dvars, svars, hvars, cvars>>

NextR == \E ms \in MessageLists : Translate(ms)

SpecR == InitR /\ [][NextR]_vars

\* The text of a part, and the texts ts[1..n] with a newline between each
\* two.
PartText(x) == IF x.text = <<>> THEN "" ELSE x.text[1]

RECURSIVE Lines(_, _)
Lines(ts, n) ==
  IF n = 0 THEN ""
  ELSE IF n = 1 THEN ts[1]
  ELSE Lines(ts, n - 1) \o "\n" \o ts[n]

\* The output is one system message with the text t, then one message for
\* each conversation message with its role.
SystemFirst(t) ==
  /\ Len(msgs) = Len(anth.messages) + 1
  /\ msgs[1] = [role |-> "system", content |-> t]
  /\ \A i \in 1..Len(anth.messages) :
       /\ msgs[i + 1].role = anth.messages[i].role
       /\ msgs[i + 1].role # "system"

\* The text the claim gives the system message.
SystemGiven(s) ==
  IF s.kind = "array"
  THEN Lines([i \in 1..Len(s.parts) |-> PartText(s.parts[i])], Len(s.parts))
  ELSE s.str

\* C22 as stated: whenever the request has a system field, the output
\* begins with exactly one system message, whose content is the string, or
\* the texts of all parts joined by newlines, and the conversation messages
\* follow it.
C22_SystemFirst ==
  translated /\ anth.system # Undefined => SystemFirst(SystemGiven(anth.system))

\* C22, amended: that holds when the system field is a non-empty string or
\* an array of parts; when it is absent or the empty string the output has
\* no system message, only the conversation messages.
C22_SystemFirstUnlessEmpty ==
  translated =>
    IF anth.system \in {Undefined, Str("")}
    THEN /\ Len(msgs) = Len(anth.messages)
         /\ \A i \in 1..Len(msgs) : msgs[i].role = anth.messages[i].role
    ELSE SystemFirst(SystemGiven(anth.system))

\* A system prompt of a text part and an image part was flattened in front
\* of a conversation of two messages.
C22_Witness ==
  /\ translated
  /\ anth.system.kind = "array"
  /\ Len(anth.system.parts) = MaxParts
  /\ \E i \in 1..MaxParts : anth.system.parts[i].type = "image"
  /\ \E i \in 1..MaxParts : anth.system.parts[i].text = <<"a">>
  /\ Len(anth.messages) = 2
  /\ Len(msgs) = 3
  /\ msgs[1].role = "system"

\* The texts of the parts of type text, in order.
RECURSIVE TextsOnly(_)
TextsOnly(ps) ==
  IF ps = <<>> THEN <<>>
  ELSE (IF Head(ps).type = "text" THEN <<PartText(Head(ps))>> ELSE <<>>)
       \o TextsOnly(Tail(ps))

\* C23: the output has, after the system message if there is one, exactly
\* one message for each input message, in the same order and with the same
\* role; its content is the string for string content, and for an array of
\* parts the texts of the parts of type text joined by newlines, the other
\* parts left out.
C23_OnePerMessage ==
  translated =>
    LET off == Len(msgs) - Len(anth.messages)
    IN /\ off \in {0, 1}
       /\ off = 1 => msgs[1].role = "system"
       /\ \A i \in 1..Len(anth.messages) :
            LET c == anth.messages[i].content
                texts == TextsOnly(c.parts)
            IN /\ msgs[off + i].role = anth.messages[i].role
               /\ c.kind = "string" => msgs[off + i].content = c.str
               /\ c.kind = "array" =>
                    msgs[off + i].content = Lines(texts, Len(texts))

\* A message of two text parts and a message of an image and a text part
\* were flattened: the first to both texts, the second to its one text.
C23_Witness ==
  /\ translated
  /\ Len(anth.messages) = 2
  /\ anth.messages[1].content.kind = "array"
  /\ anth.messages[2].content.kind = "array"
  /\ Len(TextsOnly(anth.messages[1].content.parts)) = 2
  /\ Len(anth.messages[2].content.parts) = 2
  /\ anth.messages[2].content.parts[1].type = "image"
  /\ anth.messages[2].content.parts[2].type = "text"
  /\ msgs = <<[role |-> "user", content |-> "a\nb"],
              [role |-> "assistant", content |-> "b"]>>

\* ------------------------------------------------- proxy.mjs: pickModel
\* A text is a sequence of items with a space between each two.  An item is
\* a word, given by its characters, or a run of one character repeated.  A
\* character is a one-letter string, or for a Chinese character its pinyin:
\* "dai" "ma" is U+4EE3 U+7801, and so on for the keywords below; "ni" "hao"
\* is U+4F60 U+597D.  Every one of them is one UTF-16 code unit.
MaxWords == 2
ShortLimit == 160

Word(cs) == [chars |-> cs, times |-> 1]
Run(c, n) == [chars |-> <<c>>, times |-> n]

Items ==
  {Word(<<"ni", "hao">>),
   Word(<<"J", "S", "o", "n">>),
   Word(<<"zheng", "ming">>),
   Run(".", ShortLimit - 3)}

Texts == UNION {[1..n -> Items] : n \in 0..MaxWords}

ItemLength(it) == Len(it.chars) * it.times

\* text.length
RECURSIVE TextLength(_)
TextLength(t) ==
  IF t = <<>> THEN 0
  ELSE IF Len(t) = 1 THEN ItemLength(t[1])
  ELSE ItemLength(t[1]) + 1 + TextLength(Tail(t))

\* The index in the text, counted from 0, of the first character of item i.
ItemStart(t, i) == IF i = 1 THEN 0 ELSE TextLength(SubSeq(t, 1, i - 1)) + 1

\* The alternatives of the two patterns, in the order they are written.
CodeKeywords ==
  <<<<"dai", "ma">>, <<"c", "o", "d", "e">>, <<"c", "l", "a", "s", "s">>,
    <<"i", "m", "p", "o", "r", "t">>, <<"d", "o", "c", "k", "e", "r">>,
    <<"s", "q", "l">>, <<"b", "a", "s", "h">>,
    <<"p", "y", "t", "h", "o", "n">>, <<"j", "a", "v", "a">>, <<"j", "s">>,
    <<"t", "s">>, <<"b", "u", "g">>, <<"bao", "cuo">>, <<"bian", "yi">>,
    <<"yun", "xing">>>>

ReasoningKeywords ==
  <<<<"zheng", "ming">>, <<"tui", "dao">>, <<"wei", "shen", "me">>,
    <<"yi", "bu", "yi", "bu">>, <<"yan", "jin">>, <<"tui", "li">>>>

\* A bug that makes the pattern global, so that test() keeps a position.
CodeFlagsGlobal == {"g", "i"}

CodeFlags == {"i"}
ReasoningFlags == {"i"}

CODE_PATTERN == [alts |-> CodeKeywords, flags |-> CodeFlags]
REASONING_PATTERN == [alts |-> ReasoningKeywords, flags |-> ReasoningFlags]

\* Case folding under the i flag, for the capitals that occur in Items.
Lower(c) == CASE c = "J" -> "j" [] c = "S" -> "s" [] OTHER -> c

Fold(re, c) == IF "i" \in re.flags THEN Lower(c) ELSE c

\* The alternative k matches the characters of the word from its p-th on.
WordMatchAt(re, it, p, k) ==
  /\ p + Len(k) - 1 <= Len(it.chars)
  /\ \A j \in 1..Len(k) : Fold(re, it.chars[p + j - 1]) = k[j]

\* Inside a run of one character only a run of that character matches.
RunMatch(re, it, k) ==
  /\ Len(k) <= it.times
  /\ \A j \in 1..Len(k) : Fold(re, it.chars[1]) = k[j]

\* Every match of the pattern in the text, as the indexes where it starts
\* and ends.  No alternative contains a space, so a match lies in one item.
Matches(re, t) ==
  UNION {
    IF t[i].times > 1
    THEN {[start |-> ItemStart(t, i), end |-> ItemStart(t, i) + Len(re.alts[a])] :
            a \in {b \in 1..Len(re.alts) : RunMatch(re, t[i], re.alts[b])}}
    ELSE UNION {
           {[start |-> ItemStart(t, i) + p - 1,
             end |-> ItemStart(t, i) + p - 1 + Len(re.alts[a])] :
              a \in {b \in 1..Len(re.alts) : WordMatchAt(re, t[i], p, re.alts[b])}} :
           p \in 1..Len(t[i].chars)}
    : i \in 1..Len(t)}

\* RegExp.prototype.test: without the g flag the search starts at 0 and
\* lastIndex is left alone; with it the search starts at lastIndex, which
\* becomes the end of the match found, or 0 when there is none.
Test(re, lastIndex, t) ==
  LET from == IF "g" \in re.flags THEN lastIndex ELSE 0
      cand == {m \in Matches(re, t) : m.start >= from}
      leftmost == CHOOSE m \in cand : \A n \in cand : m.start <= n.start
  IN [found |-> cand # {},
      lastIndex |-> IF "g" \notin re.flags THEN lastIndex
                    ELSE IF cand # {} THEN leftmost.end
                    ELSE 0]

\* pickModel(text), with the lastIndex of the two patterns before the call:
\* the model returned and the lastIndex of the two patterns after it.
PickModel(t, cl, rl) ==
  LET hasCode == Test(CODE_PATTERN, cl, t)
      isReasoning == Test(REASONING_PATTERN, rl, t)
      isShortText == TextLength(t) < ShortLimit
  IN [model |-> IF hasCode.found THEN "deepseek-coder:6.7b"
                ELSE IF isReasoning.found THEN "qwen2.5:7b"
                ELSE IF isShortText THEN "qwen3:0.6b"
                ELSE "llama3.2:latest",
      codeLastIndex |-> hasCode.lastIndex,
      reasoningLastIndex |-> isReasoning.lastIndex]

\* The server is up, pickModel has not been called, and prompt is the text
\* whose calls are watched.
InitS ==
  /\ InitQueue({[nan |-> FALSE, n |-> 1]}, {<<>>})
  /\ InitProxyVars
  /\ InitFront
  /\ InitDecoderIdle
  /\ InitTranslateIdle
  /\ InitHealthIdle
  /\ InitHub
  /\ prompt \in Texts
  /\ first = "none"
  /\ picked = "none"
  /\ again = FALSE
  /\ other = "none"
  /\ codeLastIndex = 0
  /\ reasoningLastIndex = 0

\* const model = pickModel(text), for a request whose text is prompt.
Pick ==
  /\ \E r \in {PickModel(prompt, codeLastIndex, reasoningLastIndex)} :
       /\ picked' = r.model
       /\ first' = IF first = "none" THEN r.model ELSE first
       /\ other' = r.model
       /\ codeLastIndex' = r.codeLastIndex
       /\ reasoningLastIndex' = r.reasoningLastIndex
  /\ again' = (first # "none")
  /\ UNCHANGED prompt
  /\ UNCHANGED <<qvars, pvars, fvars, dvars, tvars, hvars, cvars>>

\* const model = pickModel(text), for a request with the text t.
PickOther(t) ==
  /\ t # prompt
  /\ \E r \in {PickModel(t, codeLastIndex, reasoningLastIndex)} :
       /\ other' = r.model
       /\ codeLastIndex' = r.codeLastIndex
       /\ reasoningLastIndex' = r.reasoningLastIndex
  /\ UNCHANGED <<prompt, first, picked, again>>
  /\ UNCHANGED <<qvars, pvars, fvars, dvars, tvars, hvars, cvars>>

NextS ==
  \/ Pick
  \/ \E t \in Texts : PickOther(t)

SpecS == InitS /\ [][NextS]_vars

\* The text has a keyword of the pattern, in any case of its letters.
HasKeyword(re, t) == Matches([re EXCEPT !.flags = {"i"}], t) # {}

\* C24 as stated: the model is chosen by the precedence reasoning keyword,
\* then code keyword, then length under 160, then default; so a text with
\* both kinds of keyword gets the reasoning model.
C24_ReasoningFirst ==
  picked # "none" =>
    picked = IF HasKeyword(REASONING_PATTERN, prompt) THEN "qwen2.5:7b"
             ELSE IF HasKeyword(CODE_PATTERN, prompt) THEN "deepseek-coder:6.7b"
             ELSE IF TextLength(prompt) < ShortLimit THEN "qwen3:0.6b"
             ELSE "llama3.2:latest"

\* C25 as stated: 'qwen3:0.6b' for a short text with no keyword,
\* 'qwen2.5-coder' for a text with a code keyword, 'deepseek-r1:7b' for a
\* text with a reasoning keyword and no code keyword, and 'qwen3:8b' for a
\* long text with no keyword.
C25_TestedModels ==
  picked # "none" =>
    picked = IF HasKeyword(CODE_PATTERN, prompt) THEN "qwen2.5-coder"
             ELSE IF HasKeyword(REASONING_PATTERN, prompt) THEN "deepseek-r1:7b"
             ELSE IF TextLength(prompt) < ShortLimit THEN "qwen3:0.6b"
             ELSE "qwen3:8b"

\* C26: every call of pickModel on a text returns what its first call on
\* that text returned, whatever other texts it was called on before or in
\* between, and no call changes the state its result depends on: the
\* lastIndex of the two patterns stays 0.
C26_SameTextSameModel ==
  /\ picked # "none" => picked = first
  /\ codeLastIndex = 0
  /\ reasoningLastIndex = 0

\* pickModel was called on the same text a second time, and since then on
\* another text for which it chose another model.
C26_Witness ==
  /\ again
  /\ picked = first
  /\ other # picked

\* --------------------------------------------- proxy.mjs: GET /health
\* MAX_INFLIGHT = Number(process.env.MAX_INFLIGHT || 1): whatever number the
\* environment gives, NaN for a text that is no number.
MaxInflightEnv == LimitArgs

\* GET /health, with any Authorization header: the counters of the queue
\* and MAX_INFLIGHT as it was read from the environment.
GetHealth(h) ==
  /\ micro = <<>>
  /\ health' = [status |-> "ok", inflight |-> inflight, queued |-> Len(q),
                maxInflight |-> limitArg]
  /\ lastHttp' = Answered("GET /health", "none", h, "undefined", 200)
  /\ UNCHANGED <<requests, clock>>
  /\ TurnedAway
  /\ UNCHANGED <<dvars, tvars, svars, cvars>>

\* const queue = new Queue(MAX_INFLIGHT), no options.
InitH ==
  /\ InitQueue(MaxInflightEnv, {<<>>})
  /\ InitProxyVars
  /\ InitFront
  /\ InitDecoderIdle
  /\ InitOthersIdle

NextH ==
  \/ \E k \in {"json", "stream"} : Post(k)
  \/ \E h \in AuthHeaders : GetHealth(h)
  \/ \E j \in Jobs : InvokeCall(j)
  \/ \E j \in Jobs : Timeout(j)
  \/ \E j \in Jobs : Forward(j)
  \/ \E j \in Jobs : CallerHandler(j)
  \/ \E j \in Jobs : Finally(j)

SpecH == InitH /\ [][NextH]_vars

\* C27 as stated: GET /health is answered whatever the Authorization
\* header, and the answer gives the number of pending jobs as queued, the
\* number of jobs holding a slot as inflight, and the limit the queue
\* enforces as maxInflight, so inflight is at most maxInflight.
C27_HealthStep ==
  health' # health =>
    /\ lastHttp'.route = "GET /health"
    /\ lastHttp'.status = 200
    /\ health'.queued = Len(q)
    /\ health'.inflight = Cardinality(Holding)
    /\ health'.maxInflight = [nan |-> FALSE, n |-> limit]
    /\ health'.inflight <= health'.maxInflight.n

C27_HealthReportsQueue == [][C27_HealthStep]_vars

\* C28 as stated: whatever was given as the limit, the limit the queue
\* works with is at least 1, and no job waits while no job is running.
C28_LimitAtLeastOne ==
  /\ limit >= 1
  /\ inflight = 0 => q = <<>>

\* ------------------------------------------ mac-control-hub/server.mjs
\* The run store of the control hub and the child processes behind it.  A
\* run is the entry of the runs Map together with its child process:
\*   child  "alive", "exited" (the process has ended, 'close' has not been
\*          emitted: an output pipe is still open), "unspawned" (spawn
\*          failed, 'error' has been emitted, 'close' has not) or "closed";
\*   died   what ended the process: "none", "code" (it exited by itself),
\*          "spawn" (it never started) or the signal that terminated it;
\*   got    the latest signal delivered to the process.
MaxRuns == 2
MaxClock == 1
MaxListed == 200
DefaultLimit == 50
MaxSubs == 2
MaxLines == 1
MaxStreamed == 1

ALLOWED_SIGNALS == {"SIGTERM", "SIGINT", "SIGKILL"}

\* req.body?.signal: absent, or a string.
StopBodies == {"undefined", "SIGTERM", "SIGKILL", "SIGHUP"}

\* req.query.limit: absent, the text of a number, or another text.
LimitQueries ==
  {NoLimit, [given |-> TRUE, nan |-> TRUE, n |-> 0]}
  \cup {[given |-> TRUE, nan |-> FALSE, n |-> i] : i \in {0, 1, MaxListed + 1}}

\* req.query.status: absent, or a string.
StatusQueries == {"undefined", "running", "exit", "done"}

Min(a, b) == IF a <= b THEN a ELSE b

\* const run = { id, status: "running", startedAt: Date.now(), ... };
\* run.process = child
NewRun ==
  [status |-> "running", startedAt |-> now, code |-> "undefined",
   signal |-> "undefined", stopSignal |-> "undefined", process |-> TRUE,
   out |-> <<>>, subscribers |-> {},
   child |-> "alive", died |-> "none", got |-> "none"]

\* A response of GET /stream/:id: the run, the events written to it, whether
\* res.end() was called, and whether the client is still connected.
Conn(id, written, closed) ==
  [run |-> id, written |-> written, ended |-> closed, open |-> TRUE]

\* for (const sub of run.subscribers) { sub.write(event); ... } with the
\* responses S
WriteAll(S, event) ==
  [c \in 1..Len(conns) |->
     IF c \in S THEN [conns[c] EXCEPT !.written = Append(@, event)]
     ELSE conns[c]]

\* A bug that ends the subscribers without the end event.
EndAllSilently(S) ==
  [c \in 1..Len(conns) |->
     IF c \in S THEN [conns[c] EXCEPT !.ended = TRUE] ELSE conns[c]]

\* for (const sub of run.subscribers) { sub.write(`event: end...`);
\* sub.end(); }
EndAll(S) ==
  [c \in 1..Len(conns) |->
     IF c \in S THEN [conns[c] EXCEPT !.written = Append(@, "end"), !.ended = TRUE]
     ELSE conns[c]]

\* child.on("error"): a child that could not be spawned emits it on the next
\* tick, before any other request is served.
OnError(run) ==
  [run EXCEPT !.status = "error", !.process = FALSE, !.child = "unspawned",
              !.died = "spawn"]

\* A path is the sequence of its components and a component, like every
\* string of a request body, the sequence of its characters.  REPO_ROOT
\* holds the directory r, with the directory s in it; f is a file of it,
\* and no directory.
REPO_ROOT == <<<<"c">>>>
Dirs == {REPO_ROOT, REPO_ROOT \o <<<<"r">>>>, REPO_ROOT \o <<<<"r">>, <<"s">>>>}

MaxArgs == 60
MaxArgLength == 4000

\* A field of the body that is a string, and one that is absent or of
\* another type.
Text(s) == [isString |-> TRUE, text |-> s]
NotText == [isString |-> FALSE, text |-> <<>>]

\* body.repo and body.cwd
Repos ==
  {NotText} \cup {Text(s) : s \in {<<>>, <<"r">>, <<"f">>, <<"x">>, <<".">>,
                                   <<".", ".">>, <<"r", "/", "s">>, <<"\\", "r">>}}
Cwds == {NotText} \cup {Text(s) : s \in {<<>>, <<"s">>, <<"x">>, <<".", ".">>}}

\* body.cmd: a command name, or no string.
Cmds == {[isString |-> FALSE, text |-> ""], Text("git"), Text("rm")}

\* An element of body.args: a string of some length, with or without a NUL
\* character in it, or a number.
Arg(n, nul) == [isString |-> TRUE, length |-> n, nul |-> nul]
NotArg == [isString |-> FALSE, length |-> 0, nul |-> FALSE]

\* body.args: absent (the default [] is taken), an array, or something else.
ArgLists ==
  {[kind |-> "other", items |-> <<>>], [kind |-> "undefined", items |-> <<>>]}
  \cup {[kind |-> "array", items |-> a] :
          a \in {<<>>, <<Arg(1, FALSE)>>, <<Arg(1, FALSE), NotArg>>,
                 <<Arg(MaxArgLength, FALSE)>>, <<Arg(MaxArgLength + 1, FALSE)>>,
                 <<Arg(1, TRUE)>>,
                 [i \in 1..MaxArgs |-> Arg(1, FALSE)],
                 [i \in 1..MaxArgs + 1 |-> Arg(1, FALSE)]}}

RunBodies == [repo : Repos, cwd : Cwds, cmd : Cmds, args : ArgLists]

\* String.prototype.includes
Includes(s, sub) ==
  \E i \in 1..(Len(s) - Len(sub) + 1) : SubSeq(s, i, i + Len(sub) - 1) = sub

\* The components of a relative path, cut at "/".
RECURSIVE Components(_, _)
Components(s, cur) ==
  IF s = <<>> THEN <<cur>>
  ELSE IF Head(s) = "/" THEN <<cur>> \o Components(Tail(s), <<>>)
  ELSE Components(Tail(s), Append(cur, Head(s)))

\* path.join normalizes: an empty component and "." are dropped, ".." takes
\* the component before it away.
RECURSIVE Normalize(_, _)
Normalize(cs, acc) ==
  IF cs = <<>> THEN acc
  ELSE Normalize(Tail(cs),
         IF Head(cs) \in {<<>>, <<".">>} THEN acc
         ELSE IF Head(cs) = <<".", ".">>
         THEN SubSeq(acc, 1, Max(Len(acc) - 1, 0))
         ELSE Append(acc, Head(cs)))

\* path.join(base, rel)
PathJoin(base, rel) == Normalize(Components(rel, <<>>), base)

\* full.startsWith(root)
StartsWith(full, root) ==
  Len(full) >= Len(root) /\ SubSeq(full, 1, Len(root)) = root

\* What an assert... helper gives: the path, or the error it throws.
Threw == [threw |-> TRUE, full |-> <<>>]
Safe(full) == [threw |-> FALSE, full |-> full]

\* assertSafeRepo(repo)
AssertSafeRepo(repo) ==
  LET full == PathJoin(REPO_ROOT, repo.text)
  IN IF ~repo.isString \/ Len(repo.text) < 1 THEN Threw
     ELSE IF \/ Includes(repo.text, <<".", ".">>)
             \/ Includes(repo.text, <<"/">>)
             \/ Includes(repo.text, <<"\\">>) THEN Threw
     ELSE IF ~StartsWith(full, REPO_ROOT) THEN Threw
     ELSE IF full \notin Dirs THEN Threw
     ELSE Safe(full)

\* assertSafeCwd(repoFull, relPath), with assertSafePathInRepo
AssertSafeCwd(repoFull, relPath) ==
  LET full == PathJoin(repoFull, relPath.text)
  IN IF ~relPath.isString \/ Len(relPath.text) < 1 THEN Threw
     ELSE IF Includes(relPath.text, <<".", ".">>) THEN Threw
     ELSE IF ~StartsWith(full, repoFull) THEN Threw
     ELSE IF full \notin Dirs THEN Threw
     ELSE Safe(full)

ALLOWED_CMDS ==
  {"gemini", "git", "npm", "pnpm", "yarn", "node", "python3", "pip3", "make",
   "mvn", "gradle", "bash", "sh", "rg", "sed", "awk", "jq"}

\* sanitizeArgs(args) returns, and does not throw.
SanitizeArgs(args) ==
  /\ args.kind = "array"
  /\ ~(Len(args.items) > MaxArgs)
  /\ \A i \in 1..Len(args.items) :
       args.items[i].isString /\ ~(args.items[i].length > MaxArgLength)

\* The checks of POST /cmd/run that come before the run is stored: TRUE
\* when none of them throws.
RunChecks(body) ==
  LET repoFull == AssertSafeRepo(body.repo)
      safeCwd == IF body.cwd.isString /\ Len(body.cwd.text) > 0
                 THEN AssertSafeCwd(repoFull.full, body.cwd)
                 ELSE repoFull
      args == IF body.args.kind = "undefined"
              THEN [kind |-> "array", items |-> <<>>] ELSE body.args
  IN /\ ~repoFull.threw
     /\ ~safeCwd.threw
     /\ body.cmd.isString
     /\ body.cmd.text \in ALLOWED_CMDS
     /\ SanitizeArgs(args)

\* What spawn does: the child runs ("alive"), or it cannot be started and
\* emits 'error' on the next tick ("enoent"), or spawn throws at once, as it
\* does for an argument with a NUL character in it.
SpawnOutcomes == {"alive", "enoent"}
SpawnThrows(args) == \E i \in 1..Len(args.items) : args.items[i].nul

\* POST /cmd/run.  The run is stored before spawn is called: when spawn
\* throws, the run stays in the store, without a process, and the answer is
\* 400.
CmdRun(body, o) ==
  /\ Len(runs) < MaxRuns
  /\ IF ~RunChecks(body)
     THEN /\ hubReply' = RunReply(400, 0)
          /\ UNCHANGED runs
     ELSE IF SpawnThrows(body.args)
     THEN /\ runs' = Append(runs, [NewRun EXCEPT !.process = FALSE, !.child = "none"])
          /\ hubReply' = RunReply(400, 0)
     ELSE /\ runs' = Append(runs, IF o = "alive" THEN NewRun ELSE OnError(NewRun))
          /\ hubReply' = RunReply(200, Len(runs) + 1)
  /\ UNCHANGED <<now, conns>>
  /\ UNCHANGED <<qvars, pvars, fvars, dvars, tvars, svars, hvars>>

\* A body that passes every check, and one that passes none.
GoodBody ==
  [repo |-> Text(<<"r">>), cwd |-> NotText, cmd |-> Text("git"),
   args |-> [kind |-> "undefined", items |-> <<>>]]
RefusedBody ==
  [repo |-> NotText, cwd |-> NotText, cmd |-> [isString |-> FALSE, text |-> ""],
   args |-> [kind |-> "other", items |-> <<>>]]

\* A millisecond passes.
Tick ==
  /\ now < MaxClock
  /\ now' = now + 1
  /\ UNCHANGED <<runs, hubReply, conns>>
  /\ UNCHANGED <<qvars, pvars, fvars, dvars, tvars, svars, hvars>>

\* The child process ends by itself.
ChildExit(i) ==
  /\ i \in 1..Len(runs)
  /\ runs[i].child = "alive"
  /\ runs' = [runs EXCEPT ![i].child = "exited", ![i].died = "code"]
  /\ UNCHANGED <<now, hubReply, conns>>
  /\ UNCHANGED <<qvars, pvars, fvars, dvars, tvars, svars, hvars>>

\* child.on("close", (code, signal) => ...): the process has ended, or was
\* never spawned, and its output pipes are closed.
OnClose(i) ==
  /\ i \in 1..Len(runs)
  /\ runs[i].child \in {"exited", "unspawned"}
  /\ runs' = [runs EXCEPT
       ![i].status = "exit",
       ![i].code = IF runs[i].died = "code" THEN "0"
                   ELSE IF runs[i].died = "spawn" THEN "-2"
                   ELSE "undefined",
       ![i].signal = IF runs[i].died \in ALLOWED_SIGNALS THEN runs[i].died
                     ELSE "undefined",
       ![i].process = FALSE,
       ![i].subscribers = {},
       ![i].child = "closed"]
  /\ conns' = EndAll(runs[i].subscribers)
  /\ UNCHANGED <<now, hubReply>>
  /\ UNCHANGED <<qvars, pvars, fvars, dvars, tvars, svars, hvars>>

\* A bug that reports the signal as sent without sending it.
KillAnswersOnly(run, signal, dies) == [ok |-> run.child = "alive", run |-> run]

\* run.process.kill(signal): true when the signal went to a process that
\* has not ended; a process that has ended gets nothing and kill is false.
\* SIGKILL ends the process; the other signals end it unless it handles
\* them.
Kill(run, signal, dies) ==
  IF run.child # "alive" THEN [ok |-> FALSE, run |-> run]
  ELSE [ok |-> TRUE,
        run |-> IF dies \/ signal = "SIGKILL"
                THEN [run EXCEPT !.got = signal, !.child = "exited",
                                 !.died = signal]
                ELSE [run EXCEPT !.got = signal]]

\* POST /runs/:id/stop
Stop(id, body, dies) ==
  /\ IF id > Len(runs)
     THEN /\ hubReply' = StopReply(id, body, 404, FALSE, "none")
          /\ UNCHANGED runs
     ELSE IF runs[id].status # "running" \/ ~runs[id].process
     THEN /\ hubReply' = StopReply(id, body, 200, FALSE, runs[id].status)
          /\ UNCHANGED runs
     ELSE LET signal == IF body = "undefined" THEN "SIGTERM" ELSE body
              k == Kill(runs[id], signal, dies)
          IN IF signal \notin ALLOWED_SIGNALS
             THEN /\ hubReply' = StopReply(id, body, 400, FALSE, "none")
                  /\ UNCHANGED runs
             ELSE /\ runs' = [runs EXCEPT ![id] = [k.run EXCEPT !.stopSignal = signal]]
                  /\ hubReply' = StopReply(id, body, 200, k.ok, runs[id].status)
  /\ UNCHANGED <<now, conns>>
  /\ UNCHANGED <<qvars, pvars, fvars, dvars, tvars, svars, hvars>>

\* run.process.kill(signal) when the signal cannot be sent for another
\* reason than that the process is gone: kill emits 'error' on the child
\* before it returns false, the error handler runs inside the call, and the
\* process lives on.
StopKillFails(id) ==
  /\ id \in 1..Len(runs)
  /\ runs[id].status = "running" /\ runs[id].process
  /\ runs[id].child = "alive"
  /\ runs' = [runs EXCEPT ![id].status = "error", ![id].process = FALSE,
                          ![id].subscribers = {}, ![id].stopSignal = "SIGTERM"]
  /\ conns' = EndAll(runs[id].subscribers)
  /\ hubReply' = StopReply(id, "SIGTERM", 200, FALSE, "error")
  /\ UNCHANGED now
  /\ UNCHANGED <<qvars, pvars, fvars, dvars, tvars, svars, hvars>>

\* child.stdout.on("data"): one line, pushLine(run, "stdout", line).  The
\* pipe delivers until it is closed.
Output(i) ==
  /\ i \in 1..Len(runs)
  /\ runs[i].child \in {"alive", "exited"}
  /\ Len(runs[i].out) < MaxLines
  /\ runs' = [runs EXCEPT ![i].out = Append(@, "line")]
  /\ conns' = WriteAll(runs[i].subscribers, "stdout")
  /\ UNCHANGED <<now, hubReply>>
  /\ UNCHANGED <<qvars, pvars, fvars, dvars, tvars, svars, hvars>>

\* GET /stream/:id: 404 for an unknown run; else the lines so far, then the
\* end event and res.end() if the run is not running, else the response
\* joins run.subscribers.
Stream(id) ==
  /\ Len(conns) < MaxSubs
  /\ IF id > Len(runs)
     THEN UNCHANGED <<runs, conns>>
     ELSE LET lines == [k \in 1..Len(runs[id].out) |-> "stdout"]
              c == Len(conns) + 1
          IN IF runs[id].status # "running"
             THEN /\ conns' = Append(conns, Conn(id, Append(lines, "end"), TRUE))
                  /\ UNCHANGED runs
             ELSE /\ conns' = Append(conns, Conn(id, lines, FALSE))
                  /\ runs' = [runs EXCEPT ![id].subscribers = @ \cup {c}]
  /\ UNCHANGED <<now, hubReply>>
  /\ UNCHANGED <<qvars, pvars, fvars, dvars, tvars, svars, hvars>>

\* req.on("close"): the client of a response that joined the subscribers
\* goes away.
Disconnect(c) ==
  /\ c \in 1..Len(conns)
  /\ conns[c].open /\ ~conns[c].ended
  /\ conns' = [conns EXCEPT ![c].open = FALSE]
  /\ runs' = [runs EXCEPT ![conns[c].run].subscribers = @ \ {c}]
  /\ UNCHANGED <<now, hubReply>>
  /\ UNCHANGED <<qvars, pvars, fvars, dvars, tvars, svars, hvars>>

\* typeof req.query.limit === "string" ? Number(req.query.limit) : 50, then
\* Number.isFinite(rawLimit) ? Math.min(Math.max(rawLimit, 1), 200) : 50
ListLimit(lq) ==
  LET rawLimit == IF lq.given THEN lq ELSE [given |-> TRUE, nan |-> FALSE, n |-> DefaultLimit]
  IN IF ~rawLimit.nan THEN Min(Max(rawLimit.n, 1), MaxListed) ELSE DefaultLimit

\* .filter((run) => (status ? run.status === status : true)), as run ids
RECURSIVE FilterStatus(_, _)
FilterStatus(ids, st) ==
  IF ids = <<>> THEN <<>>
  ELSE (IF st = "undefined" \/ runs[Head(ids)].status = st
        THEN <<Head(ids)>> ELSE <<>>) \o FilterStatus(Tail(ids), st)

\* One step of the stable sort: x goes behind every run that started at the
\* same time or later.
RECURSIVE InsertByStart(_, _)
InsertByStart(s, x) ==
  IF s = <<>> THEN <<x>>
  ELSE IF runs[Head(s)].startedAt >= runs[x].startedAt
  THEN <<Head(s)>> \o InsertByStart(Tail(s), x)
  ELSE <<x>> \o s

\* .sort((a, b) => b.startedAt - a.startedAt); Array.prototype.sort is
\* stable.
RECURSIVE SortNewest(_, _)
SortNewest(ids, acc) ==
  IF ids = <<>> THEN acc
  ELSE SortNewest(Tail(ids), InsertByStart(acc, Head(ids)))

\* GET /runs
ListRuns(lq, sq) ==
  /\ hubReply' =
       IF sq \notin {"undefined", "running", "exit", "error"}
       THEN ListReply(lq, sq, 400, <<>>)
       ELSE LET all == [i \in 1..Len(runs) |-> i]
                sorted == SortNewest(FilterStatus(all, sq), <<>>)
            IN ListReply(lq, sq, 200,
                         SubSeq(sorted, 1, Min(ListLimit(lq), Len(sorted))))
  /\ UNCHANGED <<runs, now, conns>>
  /\ UNCHANGED <<qvars, pvars, fvars, dvars, tvars, svars, hvars>>

InitC ==
  /\ InitQueue({[nan |-> FALSE, n |-> 1]}, {<<>>})
  /\ InitProxyVars
  /\ InitFront
  /\ InitDecoderIdle
  /\ InitOthersIdle

NextC ==
  \/ \E body \in {GoodBody, RefusedBody}, o \in SpawnOutcomes : CmdRun(body, o)
  \/ Tick
  \/ \E i \in 1..MaxRuns : ChildExit(i)
  \/ \E i \in 1..MaxRuns : OnClose(i)
  \/ \E id \in 1..MaxRuns, body \in StopBodies, dies \in BOOLEAN : Stop(id, body, dies)
  \/ \E lq \in LimitQueries, sq \in StatusQueries : ListRuns(lq, sq)

SpecC == InitC /\ [][NextC]_vars

\* The runs that were spawned and the stop requests with an allowed signal
\* alone.
InitK == InitC

NextK ==
  \/ CmdRun(GoodBody, "alive")
  \/ \E i \in 1..MaxRuns : ChildExit(i)
  \/ \E i \in 1..MaxRuns : OnClose(i)
  \/ \E id \in 1..MaxRuns, body \in StopBodies \cap ALLOWED_SIGNALS :
       \E dies \in {TRUE, body = "SIGKILL"} : Stop(id, body, dies)

SpecK == InitK /\ [][NextK]_vars

\* POST /cmd/run with every body, and the processes it starts and stops.
InitV == InitC

NextV ==
  \/ \E body \in RunBodies, o \in SpawnOutcomes : CmdRun(body, o)
  \/ Tick
  \/ \E i \in 1..MaxRuns : ChildExit(i)
  \/ \E i \in 1..MaxRuns : OnClose(i)
  \/ \E id \in 1..MaxRuns : Stop(id, "SIGKILL", TRUE)

SpecV == InitV /\ [][NextV]_vars

\* The runs, their output and the subscribers of their streams; at most
\* MaxStreamed runs are started.
InitE == InitC

NextE ==
  \/ \E o \in SpawnOutcomes : Len(runs) < MaxStreamed /\ CmdRun(GoodBody, o)
  \/ \E i \in 1..MaxRuns : ChildExit(i)
  \/ \E i \in 1..MaxRuns : OnClose(i)
  \/ \E id \in 1..MaxRuns : StopKillFails(id)
  \/ \E i \in 1..MaxRuns : Output(i)
  \/ \E id \in 1..MaxRuns : Stream(id)
  \/ \E c \in 1..MaxSubs : Disconnect(c)

SpecE == InitE /\ [][NextE]_vars

\* A stop request for run i was answered in this step.
StopAnswered(i) ==
  hubReply' # hubReply /\ hubReply'.route = "stop" /\ hubReply'.id = i

\* C29 as stated: a stop request for a run whose status is running, with an
\* allowed signal, sends that signal to the process and is answered ok, and
\* the status stays running; the status of a run leaves running only when
\* its process closes, and is then exit with the signal that ended the
\* process recorded.
C29_StopStep ==
  /\ \A i \in 1..Len(runs) :
       (/\ StopAnswered(i)
        /\ runs[i].status = "running"
        /\ hubReply'.asked \in ALLOWED_SIGNALS)
       => /\ hubReply'.code = 200
          /\ hubReply'.ok
          /\ runs'[i].got = hubReply'.asked
          /\ runs'[i].status = "running"
  /\ \A i \in 1..Len(runs) :
       (runs[i].status = "running" /\ runs'[i].status # "running")
       => /\ runs[i].child = "exited"
          /\ runs'[i].child = "closed"
          /\ runs'[i].status = "exit"
          /\ runs[i].died \in ALLOWED_SIGNALS => runs'[i].signal = runs[i].died

C29_AliveStep ==
  /\ \A i \in 1..Len(runs) :
       (/\ StopAnswered(i)
        /\ runs[i].status = "running"
        /\ hubReply'.asked \in ALLOWED_SIGNALS)
       => /\ hubReply'.code = 200
          /\ hubReply'.status = "running"
          /\ runs'[i].status = "running"
          /\ IF runs[i].child = "alive"
             THEN hubReply'.ok /\ runs'[i].got = hubReply'.asked
             ELSE ~hubReply'.ok /\ runs'[i].got = runs[i].got
  /\ \A i \in 1..Len(runs) :
       (runs[i].status = "running" /\ runs'[i].status # "running")
       => /\ runs[i].child = "exited"
          /\ runs'[i].child = "closed"
          /\ runs'[i].status = "exit"
          /\ runs[i].died \in ALLOWED_SIGNALS => runs'[i].signal = runs[i].died

RECURSIVE NewestFirst(_, _)
NewestFirst(n, st) ==
  IF n = 0 THEN <<>>
  ELSE (IF st = "undefined" \/ runs[n].status = st THEN <<n>> ELSE <<>>)
       \o NewestFirst(n - 1, st)

\* C30 as stated: GET /runs answers with the runs of the status asked for,
\* the most recently started first, cut after limit runs, where limit is
\* the number asked for brought into 1..200, or 50 when none is given.
C30_ListStep ==
  (hubReply' # hubReply /\ hubReply'.route = "list" /\ hubReply'.code = 200) =>
    LET lq == hubReply'.limit
        lim == IF ~lq.given \/ lq.nan THEN DefaultLimit
               ELSE IF lq.n < 1 THEN 1
               ELSE IF lq.n > MaxListed THEN MaxListed
               ELSE lq.n
        want == NewestFirst(Len(runs), hubReply'.status)
    IN /\ Len(hubReply'.runs) <= lim
       /\ hubReply'.runs = SubSeq(want, 1, Min(lim, Len(want)))

C30_NewestFirst == [][C30_ListStep]_vars

\* The repo is a simple folder name under REPO_ROOT: a name without "..",
\* "/" or "\\" of a directory that lies in REPO_ROOT.
SimpleFolder(repo) ==
  /\ repo.isString
  /\ Len(repo.text) >= 1
  /\ ~Includes(repo.text, <<".", ".">>)
  /\ ~Includes(repo.text, <<"/">>)
  /\ ~Includes(repo.text, <<"\\">>)
  /\ REPO_ROOT \o <<repo.text>> \in Dirs

\* The arguments pass the limits: an array, or none, of at most 60 strings
\* of at most 4000 characters each.
WithinLimits(args) ==
  /\ args.kind \in {"undefined", "array"}
  /\ Len(args.items) <= MaxArgs
  /\ \A i \in 1..Len(args.items) :
       args.items[i].isString /\ args.items[i].length <= MaxArgLength

Acceptable(body) ==
  /\ SimpleFolder(body.repo)
  /\ body.cmd.isString /\ body.cmd.text \in ALLOWED_CMDS
  /\ WithinLimits(body.args)

\* C31 as stated: POST /cmd/run stores a run and starts a process only when
\* the repo is a simple folder name under REPO_ROOT, the command is in the
\* whitelist and the arguments pass the limits; every other request is
\* answered 400 and leaves the run store as it was.
C31_RunStep ==
  \A body \in RunBodies, o \in SpawnOutcomes :
    CmdRun(body, o) =>
      /\ runs' # runs => Acceptable(body)
      /\ ~Acceptable(body) => hubReply'.code = 400 /\ runs' = runs

C31_RunOnlyWhenValid == [][C31_RunStep]_vars

\* C32: in every reachable state of the queue, for every limit, the pending
\* list is empty or the running count equals the limit, and as many jobs
\* hold a slot: no job waits while a slot is free.
C32_WorkConserving ==
  q = <<>> \/ (inflight = limit /\ Cardinality(Holding) = limit)

\* C32 witness: with limit 2 the third job found both slots taken, waited,
\* and took the slot the first job gave back.
C32_Witness ==
  /\ limit = 2
  /\ MaxJobs >= 3
  /\ jstate[1] = "released"
  /\ pre[3] = 2
  /\ jstate[3] \in {"admitted", "running"}
  /\ inflight = 2
  /\ q = <<>>

\* C33: when clear() is not called and the function of every running job
\* settles in the end, every job the queue accepted is started in the end
\* and the promise enqueue returned for it settles in the end.
C33_NoStarvation ==
  \A j \in Jobs :
    (jstate[j] # "none") ~> (j \in Elems(startOrder) /\ future[j] # "pending")

\* C33 witness: with limit 1 the last job was enqueued behind a running and
\* a waiting job, the jobs before it failed, and it was started and its
\* promise settled.
C33_Witness ==
  /\ limit = 1
  /\ MaxJobs >= 3
  /\ pre[MaxJobs] = 1
  /\ disturbed[MaxJobs]
  /\ \A j \in 1..(MaxJobs - 1) : fnOutcome[j] = "fail" /\ signalled[j]
  /\ startOrder[Len(startOrder)] = MaxJobs
  /\ future[MaxJobs] = "resolved"

\* The response of request j is completely written: the five kinds of SSE
\* events through message_stop, or one JSON body, and res.end() was called.
Complete(j) ==
  /\ ended[j]
  /\ IF kind[j] = "stream" THEN WellFormedStream(out[j]) ELSE Len(out[j]) = 1

\* C34 as stated: with limit 1, once the slot of a request has been
\* released, or the backend call of a later request has been issued, the
\* response of the request is completely written, error responses included.
C34_WrittenBeforeRelease ==
  limit = 1 =>
    \A j \in Jobs :
      /\ jstate[j] = "released" => Complete(j)
      /\ \A k \in Jobs : (j < k /\ call[k] # "none") => Complete(j)

\* How often job j is in the pending list.
Times(j) == Cardinality({i \in 1..Len(q) : q[i] = j})

\* Job j is pending: in the list, once, and not started.
IsPending(j) ==
  jstate[j] = "pending" /\ Times(j) = 1 /\ j \notin Elems(startOrder)

\* Job j is running: out of the list, counted, its function not settled.
IsRunning(j) ==
  jstate[j] \in {"admitted", "running"} /\ Times(j) = 0 /\ fnOutcome[j] = "none"

\* Job j is settled: out of the list, its function settled.
IsSettled(j) ==
  jstate[j] \in {"settled", "released"} /\ Times(j) = 0 /\ fnOutcome[j] # "none"

\* Job j was discarded by clear(): out of the list, never started.
IsDiscarded(j) ==
  jstate[j] = "cleared" /\ Times(j) = 0 /\ j \notin Elems(startOrder)

\* The running count is the number of jobs started and not yet released.
CountsStarted == inflight = Cardinality(Holding)

\* C35 as stated: in every reachable state each accepted job is pending,
\* running or settled, and the running count is the number of jobs started
\* and not yet released.
C35_ExactlyOneState ==
  /\ \A j \in 1..nextId : IsPending(j) \/ IsRunning(j) \/ IsSettled(j)
  /\ CountsStarted

\* Every step that takes a job out of the pending list either starts it,
\* counting it in the same step and before its function is invoked, or is
\* clear().
StartStep ==
  \A j \in Elems(q) : j \notin Elems(q') =>
    \/ /\ jstate'[j] = "admitted"
       /\ Cardinality(Holding') = Cardinality(Holding \ {i \in Jobs : jstate'[i] = "released"}) + 1
       /\ inflight' = Cardinality(Holding')
       /\ j \notin Elems(startOrder')
    \/ /\ jstate'[j] = "cleared"
       /\ q' = <<>>
       /\ inflight' = inflight

\* C35, amended: each accepted job is in exactly one of pending, running,
\* settled or discarded by clear(); the running count is the number of jobs
\* started and not yet released; and a job leaves the pending list only by
\* clear() or by being started, in the one step that counts it.
C35_LifeCycle ==
  /\ \A j \in 1..nextId :
       IsPending(j) \/ IsRunning(j) \/ IsSettled(j) \/ IsDiscarded(j)
  /\ \A j \in Jobs \ (1..nextId) : jstate[j] = "none" /\ Times(j) = 0
  /\ CountsStarted

C35_StartIsAtomic == []C35_LifeCycle /\ [][StartStep]_vars

\* C35 witness: with limit 1, the first job is settled and released, the
\* second took its slot and runs, the third is pending.
C35_Witness ==
  /\ limit = 1
  /\ jstate[1] = "released"
  /\ jstate[2] = "running"
  /\ q = <<3>>
  /\ inflight = 1
  /\ startOrder = <<1, 2>>

\* How many reactions of kind k are queued for job j.
Queued(k, j) == Cardinality({i \in 1..Len(micro) : micro[i] = Task(k, j)})

\* Where job j stands between the settlement of its function and the
\* release of its slot: the reaction that settles the promise, then the
\* reaction that releases the slot, each queued once and run once.
SettleOnce(j) ==
  /\ jstate[j] \notin {"settled", "released"} =>
       /\ future[j] = "pending"
       /\ Queued("forward", j) = 0 /\ Queued("finally", j) = 0
  /\ (jstate[j] = "settled" /\ future[j] = "pending") =>
       Queued("forward", j) = 1 /\ Queued("finally", j) = 0
  /\ (jstate[j] = "settled" /\ future[j] # "pending") =>
       Queued("forward", j) = 0 /\ Queued("finally", j) = 1
  /\ jstate[j] = "released" =>
       /\ future[j] # "pending"
       /\ Queued("forward", j) = 0 /\ Queued("finally", j) = 0
  /\ future[j] = "resolved" => fnOutcome[j] = "ok"
  /\ future[j] = "rejected" => fnOutcome[j] = "fail"

C36_Settled ==
  /\ inflight >= 0
  /\ \A j \in Jobs : SettleOnce(j)
  /\ micro = <<>> =>
       \A j \in Jobs : fnOutcome[j] # "none" => jstate[j] = "released"

\* A promise that is settled stays as it is; a slot is released once, by
\* the job that held it, the count goes down by one for it, and the pump
\* that follows starts the head of the pending list, if there is one.
C36_Step ==
  /\ \A j \in Jobs :
       /\ future[j] # "pending" => future'[j] = future[j]
       /\ jstate[j] = "released" => jstate'[j] = "released"
       /\ (jstate[j] # "released" /\ jstate'[j] = "released") =>
            /\ jstate[j] = "settled"
            /\ inflight >= 1
            /\ IF q = <<>>
               THEN inflight' = inflight - 1 /\ q' = <<>>
               ELSE /\ inflight' = inflight
                    /\ q' = Tail(q)
                    /\ jstate'[Head(q)] = "admitted"
                    /\ micro'[Len(micro')] = Task("invoke", Head(q))
  /\ inflight' < inflight => \E j \in Jobs : jstate[j] # "released" /\ jstate'[j] = "released"

\* C36: for every job the queue starts and whose function settles, by
\* success or by failure, the promise enqueue returned is settled once, the
\* running count is decremented once and never falls below 0, and the pump
\* follows in the same step.
C36_SettleExactlyOnce == []C36_Settled /\ [][C36_Step]_vars

\* C36 witness: a job that failed and a job that succeeded have both
\* settled their promises and given their slots back; none is left.
C36_Witness ==
  /\ nextId = 2
  /\ fnOutcome[1] = "fail" /\ future[1] = "rejected" /\ jstate[1] = "released"
  /\ fnOutcome[2] = "ok" /\ future[2] = "resolved" /\ jstate[2] = "released"
  /\ inflight = 0
  /\ micro = <<>>

\* The frames whose payload carries a non-empty string content.
TextKinds == {"text", "wide", "finish", "named"}

\* Frame i has arrived with its terminating blank line.
Terminated(i) ==
  frames[i] # "cut" /\ Len(Wire(SubSeq(frames, 1, i))) <= pos

IsDelta(e) == e.type = "content_block_delta"

\* C37: at every moment no more deltas are written than frames with text
\* have arrived with their blank line; when the body ends with data in the
\* buffer that no blank line followed, that data gives no delta, stays in
\* the buffer, and the output is closed with content_block_stop and
\* message_stop.
C37_OnlyTerminatedFrames ==
  LET deltas == SelectSeq(dout, IsDelta)
      n == Len(frames)
  IN /\ Len(deltas) <=
          Cardinality({i \in 1..n : Terminated(i) /\ frames[i] \in TextKinds})
     /\ dphase = "closed" =>
          SubSeq(dout, Len(dout) - 1, Len(dout)) = StopEvents
     /\ (/\ dphase = "closed"
         /\ n >= 1
         /\ frames[n] = "cut"
         /\ \A i \in 1..n : frames[i] \notin {"done", "finish"})
        => /\ buf = FrameBytes("cut")
           /\ Len(deltas) = Cardinality({i \in 1..n : frames[i] \in TextKinds})

\* C37 witness: a frame with text, then data without a blank line, then the
\* end of the body: one delta, the closing events, the data still buffered.
C37_Witness ==
  /\ frames = <<"text", "cut">>
  /\ dphase = "closed"
  /\ buf = FrameBytes("cut")
  /\ dout = StartEvents \o <<Delta("x")>> \o StopEvents

\* How many end events were written to response c.
Ends38(c) == Cardinality({k \in 1..Len(conns[c].written) : conns[c].written[k] = "end"})

\* C38: at every moment every response of GET /stream/:id has at most one
\* end event; the end event is the last event written to it and the
\* response is ended with it, and not without it; a response is among the
\* subscribers only while the run is running; and once the run is not
\* running, by 'close', by 'error' or by 'error' followed by 'close', every
\* response whose client has not gone away has its end event, whether it
\* came before or after the end of the run.
C38_OneEndEvent ==
  /\ \A c \in 1..Len(conns) :
       LET w == conns[c].written
           r == runs[conns[c].run]
       IN /\ Ends38(c) <= 1
          /\ Ends38(c) = 1 => w[Len(w)] = "end"
          /\ conns[c].ended <=> Ends38(c) = 1
          /\ c \in r.subscribers =>
               r.status = "running" /\ ~conns[c].ended /\ conns[c].open
          /\ (r.status # "running" /\ conns[c].open) => conns[c].ended
          /\ (conns[c].open /\ ~conns[c].ended) => c \in r.subscribers
  /\ \A i \in 1..Len(runs) :
       /\ runs[i].subscribers \subseteq 1..Len(conns)
       /\ runs[i].status # "running" => runs[i].subscribers = {}

\* C38 witness: a subscriber came while the run was running and got a line
\* and then the end event when the kill failed with 'error'; a second one
\* came after that and got the line and the end event at once; the process
\* has closed since.
C38_Witness ==
  /\ Len(runs) >= 1
  /\ runs[1].status = "exit"
  /\ runs[1].stopSignal = "SIGTERM"
  /\ Len(conns) = 2
  /\ conns[1] = Conn(1, <<"stdout", "end">>, TRUE)
  /\ conns[2] = Conn(1, <<"stdout", "end">>, TRUE)

\* C39: in every step, a run whose status is not "running" keeps its status.
C39_TerminalStatusStable ==
  [][\A i \in 1..Len(runs) :
       runs[i].status # "running" => runs'[i].status = runs[i].status]_vars

\* C40: no key of the rate limiter (a client address and a window) ever
\* counts more than RateMax requests, and no count ever goes down; a POST
\* /v1/messages that finds the count of its address and its window below
\* RateMax is not answered 429 and raises that count, and no other, by one;
\* one that finds it at RateMax is answered 429 and leaves the counts, the
\* pending list, the running count and the backend calls unchanged; no
\* other step changes a count.
C40_Step ==
  /\ \A key \in DOMAIN requests : requests'[key] >= requests[key]
  /\ IF Arrived /\ lastHttp'.route = "POST /v1/messages"
     THEN LET key == Key(lastHttp'.ip, clock)
          IN IF requests[key] >= RateMax
             THEN /\ lastHttp'.status = 429
                  /\ UNCHANGED <<requests, qvars, pvars>>
             ELSE /\ lastHttp'.status # 429
                  /\ requests' = [requests EXCEPT ![key] = @ + 1]
     ELSE requests' = requests

C40_WindowLimit ==
  /\ [](\A key \in DOMAIN requests : requests[key] <= RateMax)
  /\ [][C40_Step]_vars

\* C40 witness: address "a" used up the first window and, after the clock
\* moved on, the second one too, and its next request was answered 429,
\* while a request of "b" went through and is running.
C40_Witness ==
  /\ requests[<<"a", 0>>] = RateMax
  /\ requests[<<"a", 1>>] = RateMax
  /\ requests[<<"b", 1>>] = 1
  /\ lastHttp.ip = "a" /\ lastHttp.status = 429
  /\ Window(clock) = 1
  /\ inflight = 1
====
